---- MODULE Spec2Model ----
(***************************************************************************)
(* A model of src/src/extension.ts of vscode-lumos: the document formatter *)
(* (LumosFormattingProvider), the error locator (findErrorLocation) and    *)
(* the validation triggers of activate().                                   *)
(*                                                                         *)
(* A JavaScript string is a sequence of one-character strings.             *)
(***************************************************************************)
EXTENDS Integers, Sequences, FiniteSets, TLC

VARIABLES
    text,            \* formatDocument: the document text handed to the formatter
    indentSize,      \* lumos.format.indentSize
    sortAttributes,  \* lumos.format.sortAttributes
    alignFields,     \* lumos.format.alignFields
    i,               \* formatDocument: the loop index
    formatted,       \* formatDocument: the emitted lines
    indentLevel,     \* formatDocument: the nesting depth
    inStruct,        \* formatDocument: inside a struct body
    structFields,    \* formatDocument: the buffered field lines
    attributes,      \* formatDocument: the buffered attribute lines
    fpc,             \* formatDocument: "idle", "loop", "done" or "threw"
    result,          \* formatDocument: the returned string
    flushed,         \* history: the last batch that went through alignStructFields
    errorMessage,    \* findErrorLocation: the extracted message
    document,        \* findErrorLocation: the lines of the document
    range,           \* findErrorLocation: the returned range
    lpc,             \* findErrorLocation: "idle", "ready" or "located"
    activated,       \* activate() has run
    validationEnabled,    \* the setting lumos.validation.enabled
    openDocs,        \* vscode.workspace.textDocuments
    validationTimeout,    \* the module's debounce timer
    running,         \* the validation passes waiting for execAsync
    diagnosticCollection, \* what is published, per document
    nextPass,        \* history: the number the next pass started gets
    lastStarted,     \* history: per document, the pass started last (0: none)
    computed,        \* history: per completed pass, the diagnostics it computed
    dirty,           \* history: per document, a change no pass has followed yet
    events,          \* the number of editor events so far
    burst,           \* history: the changes since the timer pending was first
                     \* armed for its document, and the size of the burst
                     \* that the timer last fired for
    args,            \* a single call of a helper function: its arguments
    ret,             \* a single call of a helper function: what it returned
    ppc,             \* "idle", the name of the function called, or "returned"
    lspConfig,       \* the settings lumos.lsp.*
    lspPath,         \* startLSPClient: the server binary found, or undefined
    client,          \* the module's language client, or NoClient
    spc,             \* startLSPClient: "idle", the await it is at, or "returned"
    deactivated      \* deactivate() has run

fvars == <<text, indentSize, sortAttributes, alignFields, i, formatted,
           indentLevel, inStruct, structFields, attributes, fpc, result, flushed>>

lvars == <<errorMessage, document, range, lpc>>

xvars == <<activated, validationEnabled, openDocs, validationTimeout, running,
           diagnosticCollection, nextPass, lastStarted, computed, dirty, events,
           burst>>

pvars == <<args, ret, ppc>>

svars == <<lspConfig, lspPath, client, spc, deactivated>>

vars == <<fvars, lvars, xvars, pvars, svars>>

(***************************************************************************)
(* String primitives of JavaScript used by the code.                       *)
(***************************************************************************)
Whitespace == {" ", "\t", "\r", "\n"}

NL == <<"\n">>

RECURSIVE trimStart(_)
trimStart(s) ==
    IF s # <<>> /\ Head(s) \in Whitespace THEN trimStart(Tail(s)) ELSE s

RECURSIVE trimEnd(_)
trimEnd(s) ==
    IF s # <<>> /\ s[Len(s)] \in Whitespace
    THEN trimEnd(SubSeq(s, 1, Len(s) - 1))
    ELSE s

trim(s) == trimEnd(trimStart(s))

startsWith(s, p) == Len(s) >= Len(p) /\ SubSeq(s, 1, Len(p)) = p

endsWith(s, p) == Len(s) >= Len(p) /\ SubSeq(s, Len(s) - Len(p) + 1, Len(s)) = p

includes(s, p) == \E k \in 0..(Len(s) - Len(p)) : SubSeq(s, k + 1, k + Len(p)) = p

\* 0-based index of the first occurrence of p in s, -1 when there is none
indexOf(s, p) ==
    IF includes(s, p)
    THEN CHOOSE k \in 0..(Len(s) - Len(p)) :
            /\ SubSeq(s, k + 1, k + Len(p)) = p
            /\ \A j \in 0..(k - 1) : SubSeq(s, j + 1, j + Len(p)) # p
    ELSE -1

\* s.substring(from) and s.substring(from, to), 0-based, to exclusive
substringFrom(s, from) == SubSeq(s, from + 1, Len(s))

substring(s, from, to) == SubSeq(s, from + 1, to)

\* c.repeat(n) for n >= 0; a negative n is a RangeError, see RangeError below
repeat(c, n) == [k \in 1..n |-> c]

RangeError(n) == n < 0

RECURSIVE split(_)
split(s) ==
    IF \E k \in 1..Len(s) : s[k] = "\n"
    THEN LET k == CHOOSE k \in 1..Len(s) :
                      s[k] = "\n" /\ \A j \in 1..(k - 1) : s[j] # "\n"
         IN  <<SubSeq(s, 1, k - 1)>> \o split(SubSeq(s, k + 1, Len(s)))
    ELSE <<s>>

RECURSIVE join(_)
join(ls) ==
    IF ls = <<>> THEN <<>>
    ELSE IF Len(ls) = 1 THEN ls[1]
    ELSE ls[1] \o NL \o join(Tail(ls))

\* UTF-16 code units of the characters the model's documents use
CharCode(c) ==
    CASE c = "\t" -> 9   [] c = "\n" -> 10  [] c = "\r" -> 13  [] c = " " -> 32
      [] c = "#" -> 35   [] c = "," -> 44   [] c = ":" -> 58   [] c = ";" -> 59
      [] c = "E" -> 69   [] c = "S" -> 83   [] c = "T" -> 84   [] c = "V" -> 86
      [] c = "[" -> 91   [] c = "]" -> 93   [] c = "_" -> 95
      [] c = "a" -> 97   [] c = "b" -> 98   [] c = "c" -> 99   [] c = "d" -> 100
      [] c = "e" -> 101  [] c = "m" -> 109  [] c = "n" -> 110  [] c = "p" -> 112
      [] c = "r" -> 114  [] c = "s" -> 115  [] c = "t" -> 116  [] c = "u" -> 117
      [] c = "x" -> 120  [] c = "y" -> 121  [] c = "z" -> 122  [] c = "{" -> 123
      [] c = "}" -> 125

\* a < b in the order Array.prototype.sort uses by default (code units)
RECURSIVE LexLess(_, _)
LexLess(a, b) ==
    IF b = <<>> THEN FALSE
    ELSE IF a = <<>> THEN TRUE
    ELSE IF Head(a) = Head(b) THEN LexLess(Tail(a), Tail(b))
    ELSE CharCode(Head(a)) < CharCode(Head(b))

RECURSIVE insertSorted(_, _)
insertSorted(arr, x) ==
    IF arr = <<>> THEN <<x>>
    ELSE IF LexLess(x, Head(arr)) THEN <<x>> \o arr
    ELSE <<Head(arr)>> \o insertSorted(Tail(arr), x)

RECURSIVE sort(_)
sort(arr) ==
    IF arr = <<>> THEN <<>>
    ELSE insertSorted(sort(SubSeq(arr, 1, Len(arr) - 1)), arr[Len(arr)])

(***************************************************************************)
(* The literals of formatDocument.                                         *)
(***************************************************************************)
KwAttr == <<"#", "[">>
KwStruct == <<"s", "t", "r", "u", "c", "t">>
KwEnum == <<"e", "n", "u", "m">>
KwPub == <<"p", "u", "b">>
KwPubStruct == <<"p", "u", "b", " ", "s", "t", "r", "u", "c", "t">>
KwPubEnum == <<"p", "u", "b", " ", "e", "n", "u", "m">>
Open == <<"{">>
Close == <<"}">>
Colon == <<":">>

(***************************************************************************)
(* LumosFormattingProvider.alignStructFields                               *)
(***************************************************************************)
\* one element of parsedFields
parseField(field) ==
    LET colonIndex == indexOf(field, Colon)
    IN  IF colonIndex > 0
        THEN [fieldName |-> trim(substring(field, 0, colonIndex)),
              rest |-> trim(substringFrom(field, colonIndex)),
              named |-> TRUE]
        ELSE [fieldName |-> field, rest |-> <<>>, named |-> FALSE]

RECURSIVE maxFieldLength(_)
maxFieldLength(fields) ==
    IF fields = <<>> THEN 0
    ELSE LET p == parseField(fields[Len(fields)])
             m == maxFieldLength(SubSeq(fields, 1, Len(fields) - 1))
         IN  IF p.named /\ Len(p.fieldName) > m THEN Len(p.fieldName) ELSE m

alignField(p, maxLen, level, size) ==
    LET indent == repeat(" ", level * size)
    IN  IF p.rest # <<>>
        THEN indent \o p.fieldName \o repeat(" ", maxLen - Len(p.fieldName))
                    \o <<":", " ">> \o trim(substringFrom(p.rest, 1))
        ELSE indent \o p.fieldName

alignStructFields(fields, level, size) ==
    [k \in 1..Len(fields) |->
        alignField(parseField(fields[k]), maxFieldLength(fields), level, size)]

\* alignStructFields throws when it has a line to indent and the indent is negative
alignStructFieldsThrows(fields, level, size) ==
    fields # <<>> /\ RangeError(level * size)

(***************************************************************************)
(* LumosFormattingProvider.formatDocument                                  *)
(* The state of one run is a record st of the locals of the function; threw*)
(* records that ' '.repeat raised a RangeError, which ends the run.        *)
(***************************************************************************)
FState ==
    [formatted |-> formatted, indentLevel |-> indentLevel, inStruct |-> inStruct,
     structFields |-> structFields, attributes |-> attributes, threw |-> FALSE]

FState0 ==
    [formatted |-> <<>>, indentLevel |-> 0, inStruct |-> FALSE,
     structFields |-> <<>>, attributes |-> <<>>, threw |-> FALSE]

\* formatted.push(' '.repeat(level * indentSize) + line)
push(st, level, line, size) ==
    IF RangeError(level * size)
    THEN [st EXCEPT !.threw = TRUE]
    ELSE [st EXCEPT !.formatted = Append(@, repeat(" ", level * size) \o line)]

\* formatted.push(...lines)
pushAll(st, lines) == [st EXCEPT !.formatted = @ \o lines]

\* a blank-line branch that pushes nothing
EmitBlankSkipped(st) == st

\* the blank-line branch: formatted.push('')
EmitBlank(st) == [st EXCEPT !.formatted = Append(@, <<>>)]

CollectAttribute(st, line) == [st EXCEPT !.attributes = Append(@, line)]

\* attributes.sort() when asked, every attribute pushed at the current indent
EmitAttributes(st, size, sorted) ==
    LET attrs == IF sorted THEN sort(st.attributes) ELSE st.attributes
    IN  IF attrs # <<>> /\ RangeError(st.indentLevel * size)
        THEN [st EXCEPT !.threw = TRUE]
        ELSE pushAll(st, [k \in 1..Len(attrs) |->
                              repeat(" ", st.indentLevel * size) \o attrs[k]])

FlushesAttributes(line) ==
    startsWith(line, KwStruct) \/ startsWith(line, KwEnum) \/ startsWith(line, KwPub)

\* flush sorted attributes before struct/enum
FlushAttributes(st, line, size, sorted) ==
    IF st.attributes # <<>> /\ FlushesAttributes(line)
    THEN LET e == EmitAttributes(st, size, sorted)
         IN  IF e.threw THEN e ELSE [e EXCEPT !.attributes = <<>>]
    ELSE st

IsClose(line) == line = Close \/ startsWith(line, Close)

IsDeclaration(line) ==
    \/ startsWith(line, KwStruct)
    \/ startsWith(line, KwEnum)
    \/ startsWith(line, KwPubStruct)
    \/ startsWith(line, KwPubEnum)

\* handle closing braces
\* a closing-brace branch that flushes the fields and keeps them buffered
CloseBraceKeepsFields(st, line, size, align) ==
    LET flush == st.inStruct /\ st.structFields # <<>> /\ align
        s1 == IF ~flush THEN st
              ELSE IF alignStructFieldsThrows(st.structFields, st.indentLevel + 1, size)
              THEN [st EXCEPT !.threw = TRUE]
              ELSE pushAll(st, alignStructFields(st.structFields,
                                                 st.indentLevel + 1, size))
        s2 == [s1 EXCEPT !.indentLevel = @ - 1, !.inStruct = FALSE]
    IN  IF s1.threw THEN s1 ELSE push(s2, s2.indentLevel, line, size)

CloseBrace(st, line, size, align) ==
    LET flush == st.inStruct /\ st.structFields # <<>> /\ align
        s1 == IF ~flush THEN st
              ELSE IF alignStructFieldsThrows(st.structFields, st.indentLevel + 1, size)
              THEN [st EXCEPT !.threw = TRUE]
              ELSE [pushAll(st, alignStructFields(st.structFields,
                                                  st.indentLevel + 1, size))
                       EXCEPT !.structFields = <<>>]
        s2 == [s1 EXCEPT !.indentLevel = @ - 1, !.inStruct = FALSE]
    IN  IF s1.threw THEN s1 ELSE push(s2, s2.indentLevel, line, size)

\* handle struct/enum declarations
Declaration(st, line, size) ==
    LET s1 == push(st, st.indentLevel, line, size)
    IN  IF s1.threw \/ ~endsWith(line, Open) THEN s1
        ELSE [s1 EXCEPT !.indentLevel = @ + 1,
                        !.inStruct = IF includes(line, KwStruct) THEN TRUE ELSE @]

\* an opening-brace branch that opens no block
OpenBraceFlat(st, line, size) ==
    LET s2 == push(st, st.indentLevel, line, size)
        n  == Len(s2.formatted)
    IN  IF s2.threw THEN s2
        ELSE IF n >= 2 /\ s2.formatted[n - 1] # <<>>
                /\ includes(s2.formatted[n - 1], KwStruct)
        THEN [s2 EXCEPT !.inStruct = TRUE]
        ELSE s2

\* handle opening braces
OpenBrace(st, line, size) ==
    LET s1 == [st EXCEPT !.indentLevel = @ + 1]
        s2 == push(s1, s1.indentLevel - 1, line, size)
        n  == Len(s2.formatted)
    IN  IF s2.threw THEN s2
        ELSE IF n >= 2 /\ s2.formatted[n - 1] # <<>>
                /\ includes(s2.formatted[n - 1], KwStruct)
        THEN [s2 EXCEPT !.inStruct = TRUE]
        ELSE s2

CollectField(st, line) == [st EXCEPT !.structFields = Append(@, line)]

\* the body of the for loop on one line of the document
LoopBody(st, rawLine, size, sorted, align) ==
    LET line == trim(rawLine)
    IN  IF line = <<>> THEN EmitBlank(st)
        ELSE IF startsWith(line, KwAttr) THEN CollectAttribute(st, line)
        ELSE LET s1 == FlushAttributes(st, line, size, sorted)
             IN  IF s1.threw THEN s1
                 ELSE IF IsClose(line) THEN CloseBrace(s1, line, size, align)
                 ELSE IF IsDeclaration(line) THEN Declaration(s1, line, size)
                 ELSE IF line = Open THEN OpenBrace(s1, line, size)
                 ELSE IF s1.inStruct /\ includes(line, Colon) THEN CollectField(s1, line)
                 ELSE IF ~s1.inStruct THEN push(s1, s1.indentLevel, line, size)
                 ELSE push(s1, s1.indentLevel, line, size)

\* flush any remaining struct fields
ResidualFields(st, size, align) ==
    IF st.structFields # <<>> /\ align
    THEN IF alignStructFieldsThrows(st.structFields, st.indentLevel, size)
         THEN [st EXCEPT !.threw = TRUE]
         ELSE pushAll(st, alignStructFields(st.structFields, st.indentLevel, size))
    ELSE st

\* flush any remaining attributes
ResidualAttributes(st, size, sorted) ==
    IF st.attributes # <<>> THEN EmitAttributes(st, size, sorted) ELSE st

\* what follows the loop
Residual(st, size, sorted, align) ==
    LET s1 == ResidualFields(st, size, align)
    IN  IF s1.threw THEN s1 ELSE ResidualAttributes(s1, size, sorted)

RECURSIVE Loop(_, _, _, _, _, _)
Loop(st, lines, k, size, sorted, align) ==
    IF st.threw \/ k > Len(lines) THEN st
    ELSE Loop(LoopBody(st, lines[k], size, sorted, align), lines, k + 1,
              size, sorted, align)

\* the whole function: the final state of the run; its formatted field, joined,
\* is the return value when threw is FALSE
formatRun(t, size, sorted, align) ==
    LET st == Loop(FState0, split(t), 1, size, sorted, align)
    IN  IF st.threw THEN st ELSE Residual(st, size, sorted, align)

Threw == <<"RangeError">>

formatDocument(t, size, sorted, align) ==
    LET st == formatRun(t, size, sorted, align)
    IN  IF st.threw THEN Threw ELSE join(st.formatted)

(***************************************************************************)
(* The formatter as a state machine: one step per iteration of the loop.   *)
(* text holds the lines read so far; the document's next line is chosen    *)
(* when the loop reaches it, its end when the loop leaves.                 *)
(***************************************************************************)
MaxLines == 3
MaxDeepLines == 5

IndentSizes == {2, 4}

\* the lines of the documents explored by SpecFormat
FormatLines ==
    { <<>>,
      <<"#", "[", "a", "]">>,
      <<"s", "t", "r", "u", "c", "t", " ", "S", " ", "{">>,
      <<"e", "n", "u", "m", " ", "E", " ", "{">>,
      <<"V", " ", "{">>,
      <<"{">>,
      <<"}">>,
      <<" ", "a", ":", "b">>,
      <<"p", "u", "b", " ", "y", "y", ":", " ", "c">>,
      <<":", "z">> }

\* the lines of the longer documents explored by SpecFormatDeep
DeepLines ==
    { <<"#", "[", "b", "]">>,
      <<"#", "[", "a", "]">>,
      <<"s", "t", "r", "u", "c", "t", " ", "S", " ", "{">>,
      <<"s", "t", "r", "u", "c", "t", " ", "T">>,
      <<"p", "u", "b", " ", "y", "y", ":", " ", "c">> }

\* no batch flushed yet; body is the indent level of the block the batch is in
NoBatch == [from |-> 1, to |-> 0, fields |-> <<>>, level |-> 0, body |-> 0]

IdleFormat ==
    /\ text = <<>>
    /\ indentSize = 4
    /\ sortAttributes = TRUE
    /\ alignFields = TRUE
    /\ i = 0
    /\ formatted = <<>>
    /\ indentLevel = 0
    /\ inStruct = FALSE
    /\ structFields = <<>>
    /\ attributes = <<>>
    /\ fpc = "idle"
    /\ result = <<>>
    /\ flushed = NoBatch

InitFormat ==
    /\ text = <<>>
    /\ indentSize \in IndentSizes
    /\ sortAttributes \in BOOLEAN
    /\ alignFields \in BOOLEAN
    /\ i = 0
    /\ formatted = <<>>
    /\ indentLevel = 0
    /\ inStruct = FALSE
    /\ structFields = <<>>
    /\ attributes = <<>>
    /\ fpc = "loop"
    /\ result = <<>>
    /\ flushed = NoBatch

SetFState(st) ==
    /\ formatted' = st.formatted
    /\ indentLevel' = st.indentLevel
    /\ inStruct' = st.inStruct
    /\ structFields' = st.structFields
    /\ attributes' = st.attributes

\* one iteration of the loop, on the line l that the document holds at index i
FormatLine(l, max) ==
    /\ fpc = "loop"
    /\ i < max
    /\ text' = IF i = 0 THEN l ELSE text \o NL \o l
    /\ LET st == LoopBody(FState, split(text')[i + 1], indentSize, sortAttributes,
                          alignFields)
       IN  /\ SetFState(st)
           /\ fpc' = IF st.threw THEN "threw" ELSE "loop"
           /\ flushed' =
                IF ~st.threw /\ structFields # <<>> /\ st.structFields = <<>>
                THEN [from |-> Len(formatted) + 1, to |-> Len(st.formatted) - 1,
                      fields |-> structFields, level |-> indentLevel + 1,
                      body |-> indentLevel]
                ELSE flushed
    /\ i' = i + 1
    /\ UNCHANGED <<indentSize, sortAttributes, alignFields, result, lvars, xvars, pvars, svars>>

\* the loop is over: the residual flushes and the join
FormatEnd ==
    /\ fpc = "loop"
    /\ i >= 1
    /\ LET st == Residual(FState, indentSize, sortAttributes, alignFields)
       IN  /\ SetFState(st)
           /\ fpc' = IF st.threw THEN "threw" ELSE "done"
           /\ result' = IF st.threw THEN result ELSE join(st.formatted)
           /\ flushed' =
                IF ~st.threw /\ structFields # <<>> /\ alignFields
                THEN [from |-> Len(formatted) + 1,
                      to |-> Len(formatted) + Len(structFields),
                      fields |-> structFields, level |-> indentLevel,
                      body |-> indentLevel]
                ELSE flushed
    /\ UNCHANGED <<text, indentSize, sortAttributes, alignFields, i, lvars, xvars, pvars, svars>>

NextFormat ==
    \/ \E l \in FormatLines : FormatLine(l, MaxLines)
    \/ FormatEnd

NextFormatDeep ==
    \/ \E l \in DeepLines : FormatLine(l, MaxDeepLines)
    \/ FormatEnd

MaxSiblingLines == 6

\* the lines of the documents of sibling structs explored by SpecFormatSiblings
SiblingLines ==
    { <<"s", "t", "r", "u", "c", "t", " ", "S", " ", "{">>,
      <<"l", "o", "n", "g", ":", " ", "c">>,
      <<" ", "a", ":", "b">>,
      <<"}">> }

\* a run with alignFields set
InitFormatAligned ==
    /\ text = <<>>
    /\ indentSize \in IndentSizes
    /\ sortAttributes = TRUE
    /\ alignFields = TRUE
    /\ i = 0
    /\ formatted = <<>>
    /\ indentLevel = 0
    /\ inStruct = FALSE
    /\ structFields = <<>>
    /\ attributes = <<>>
    /\ fpc = "loop"
    /\ result = <<>>
    /\ flushed = NoBatch

NextFormatSiblings ==
    \/ \E l \in SiblingLines : FormatLine(l, MaxSiblingLines)
    \/ FormatEnd

MaxBlockLines == 5

\* the lines of the documents of nested blocks explored by SpecFormatBlocks
BlockLines ==
    { <<"s", "t", "r", "u", "c", "t", " ", "S", " ", "{">>,
      <<"{">>,
      <<"V", ",">>,
      <<"}">> }

NextFormatBlocks ==
    \/ \E l \in BlockLines : FormatLine(l, MaxBlockLines)
    \/ FormatEnd

MaxEnumLines == 3

\* the lines of the enum documents explored by SpecFormatEnum
EnumLines ==
    { <<>>,
      <<"e", "n", "u", "m", " ", "E", " ", "{">>,
      <<"e", "n", "u", "m", " ", "I", "n", "s", "t", "r", "u", "c", "t", "i", "o", "n",
        " ", "{">>,
      <<" ", "a", ":", "b">>,
      <<"V", ",">>,
      <<"}">> }

NextFormatEnum ==
    \/ \E l \in EnumLines : FormatLine(l, MaxEnumLines)
    \/ FormatEnd

(***************************************************************************)
(* What the claims speak of, read off the input and the output.            *)
(***************************************************************************)
\* the lines of the document read so far
linesRead == IF i = 0 THEN <<>> ELSE SubSeq(split(text), 1, i)

IsBlank(l) == trim(l) = <<>>

IsAttributeLine(l) == startsWith(trim(l), KwAttr)

IsDeclarationLine(l) == IsDeclaration(trim(l))

RECURSIVE NumBlank(_)
NumBlank(ls) ==
    IF ls = <<>> THEN 0
    ELSE NumBlank(Tail(ls)) + (IF IsBlank(Head(ls)) THEN 1 ELSE 0)

\* the nesting depth after the lines ls, a block being opened by any line that
\* ends in an opening brace and closed by any line that begins with a closing one
RECURSIVE Depth(_)
Depth(ls) ==
    IF ls = <<>> THEN 0
    ELSE LET l == trim(ls[Len(ls)])
         IN  Depth(SubSeq(ls, 1, Len(ls) - 1))
                + (IF endsWith(l, Open) THEN 1 ELSE 0)
                - (IF startsWith(l, Close) THEN 1 ELSE 0)

\* no closing brace without an opening one before it
WellNested(ls) == \A k \in 1..Len(ls) : Depth(SubSeq(ls, 1, k)) >= 0

\* the field name of a field line: the trimmed text before its first colon
NameLength(field) ==
    IF includes(field, Colon)
    THEN Len(trim(substring(field, 0, indexOf(field, Colon))))
    ELSE 0

RECURSIVE MaxNameLength(_)
MaxNameLength(fields) ==
    IF fields = <<>> THEN 0
    ELSE LET m == MaxNameLength(Tail(fields))
             n == NameLength(Head(fields))
         IN  IF n > m THEN n ELSE m

\* C1: formatDocument is total: whatever the text and the options, a run never
\* ends in an exception.
C1_FormatNeverThrows == fpc # "threw"

\* C2: formatting is idempotent: formatting the returned text again with the
\* same options returns it unchanged.
C2_Idempotent ==
    fpc = "done" =>
        formatDocument(result, indentSize, sortAttributes, alignFields) = result

\* C4: on a document whose braces nest properly, a block being opened by any
\* line ending in an opening brace, the run does not throw, the indent level
\* is the nesting depth (so never negative, and 0 once every block is closed)
\* and each line is therefore emitted at the indent of its depth.
C4_NestedStructures ==
    (i >= 1 /\ WellNested(linesRead)) =>
        /\ fpc # "threw"
        /\ indentLevel >= 0
        /\ indentLevel = Depth(linesRead)

\* C5: the first colon of every line of a batch emitted by alignStructFields
\* is at column indentLevel * indentSize + maxNameLength, maxNameLength being
\* the length of the longest trimmed field name of the batch.
C5_AlignmentInvariant ==
    \A k \in flushed.from..flushed.to :
        indexOf(formatted[k], Colon)
            = flushed.level * indentSize + MaxNameLength(flushed.fields)

\* C6: with sortAttributes set, in the returned text every run of attribute
\* lines that immediately precedes a struct/enum declaration line is
\* lexicographically non-decreasing.
C6_AttributeSortInvariant ==
    (fpc = "done" /\ sortAttributes) =>
        LET out == split(result)
            PrecedesDeclaration(k) ==
                \E m \in (k + 1)..Len(out) :
                    /\ IsDeclarationLine(out[m])
                    /\ \A j \in k..(m - 1) : IsAttributeLine(out[j])
        IN  \A k \in 1..(Len(out) - 1) :
                (IsAttributeLine(out[k]) /\ PrecedesDeclaration(k + 1))
                    => ~LexLess(trim(out[k + 1]), trim(out[k]))

\* C7: blank lines are preserved: at every point of a run that does not throw
\* the emitted lines hold as many blank lines as the lines read, no buffered
\* line is blank, and the returned text has as many blank lines as the input.
C7_BlankLinePreservation ==
    (fpc \in {"loop", "done"}) =>
        /\ NumBlank(formatted) = NumBlank(linesRead)
        /\ \A k \in 1..Len(attributes) : ~IsBlank(attributes[k])
        /\ \A k \in 1..Len(structFields) : ~IsBlank(structFields[k])
        /\ fpc = "done" => NumBlank(split(result)) = NumBlank(split(text))

\* C7 witness: a run has returned on a document that holds a blank line and a
\* batch of fields that went through alignStructFields.
C7_BlankLinesThroughFlush ==
    /\ fpc = "done"
    /\ NumBlank(split(text)) >= 1
    /\ NumBlank(split(result)) >= 1
    /\ flushed.to >= flushed.from

\* the number of spaces a line begins with
RECURSIVE LeadingSpaces(_)
LeadingSpaces(l) ==
    IF l = <<>> \/ Head(l) # " " THEN 0 ELSE 1 + LeadingSpaces(Tail(l))

\* C11: the field lines of the body of a top-level struct are emitted indented
\* by exactly one indent unit, like any other line of that body, and the
\* closing brace that ends the body at column 0.
C11_FieldIndentOneUnit ==
    (fpc \in {"loop", "done"} /\ flushed.body = 1) =>
        /\ \A k \in flushed.from..flushed.to :
              LeadingSpaces(formatted[k]) = indentSize
        /\ (flushed.level = 2 /\ flushed.to >= flushed.from) =>
              LeadingSpaces(formatted[flushed.to + 1]) = 0

(***************************************************************************)
(* findErrorLocation                                                       *)
(***************************************************************************)
\* the grave accent (U+0060), a character no TLA+ string literal can hold
Backtick == "GRAVE"

WordChars ==
    {"a", "b", "c", "d", "e", "f", "g", "h", "i", "j", "k", "l", "m", "n", "o",
     "p", "q", "r", "s", "t", "u", "v", "w", "x", "y", "z", "A", "B", "C", "D",
     "E", "F", "G", "H", "I", "J", "K", "L", "M", "N", "O", "P", "Q", "R", "S",
     "T", "U", "V", "W", "X", "Y", "Z", "0", "1", "2", "3", "4", "5", "6", "7",
     "8", "9", "_"}

AllSpace(s) == \A k \in 1..Len(s) : s[k] \in Whitespace

AllWord(s) == \A k \in 1..Len(s) : s[k] \in WordChars

\* /^\s+\w+\s+\w+\s*$/.test(s)
MatchesTwoWords(s) ==
    \E a \in 1..Len(s), b \in 1..Len(s), c \in 1..Len(s), d \in 1..Len(s) :
        /\ a < b /\ b < c /\ c < d
        /\ AllSpace(SubSeq(s, 1, a))
        /\ AllWord(SubSeq(s, a + 1, b))
        /\ AllSpace(SubSeq(s, b + 1, c))
        /\ AllWord(SubSeq(s, c + 1, d))
        /\ AllSpace(SubSeq(s, d + 1, Len(s)))

\* /struct\s+\w+/.test(s)
MatchesStructName(s) ==
    \E k \in 0..(Len(s) - Len(KwStruct)) :
        /\ SubSeq(s, k + 1, k + Len(KwStruct)) = KwStruct
        /\ \E m \in (k + Len(KwStruct) + 1)..(Len(s) - 1) :
              /\ AllSpace(SubSeq(s, k + Len(KwStruct) + 1, m))
              /\ s[m + 1] \in WordChars

MsgExpectedColon ==
    <<"e", "x", "p", "e", "c", "t", "e", "d", " ", Backtick, ":", Backtick>>
MsgExpectedSemicolon ==
    <<"e", "x", "p", "e", "c", "t", "e", "d", " ", Backtick, ";", Backtick>>
MsgSemicolon == <<"s", "e", "m", "i", "c", "o", "l", "o", "n">>
MsgExpectedBrace ==
    <<"e", "x", "p", "e", "c", "t", "e", "d", " ", Backtick, "{", Backtick>>
Semicolon == <<";">>

Position(line, character) == [line |-> line, character |-> character]

Range(start, end) == [start |-> start, end |-> end]

\* the tests of the three scans, on the text of one line
MissingColonLine(lineText) == MatchesTwoWords(lineText) /\ ~includes(lineText, Colon)

MissingSemicolonLine(lineText) ==
    /\ includes(lineText, Colon)
    /\ ~endsWith(trim(lineText), Semicolon)
    /\ ~endsWith(trim(lineText), Open)

MissingBraceLine(lineText) == MatchesStructName(lineText) /\ ~includes(lineText, Open)

\* the for loop with its break: the 0-based index of the first of the lines that
\* pass the test, hits being their 1-based indices; -1 when none does
FirstLine(hits) ==
    IF hits = {} THEN -1
    ELSE (CHOOSE k \in hits : \A j \in hits : k <= j) - 1

\* a locator whose scans fall through to the next bucket when they find no line
findErrorLocationFallThrough(msg, doc) ==
    LET colon == FirstLine({k \in 1..Len(doc) : MissingColonLine(doc[k])})
        semi == FirstLine({k \in 1..Len(doc) : MissingSemicolonLine(doc[k])})
        brace == FirstLine({k \in 1..Len(doc) : MissingBraceLine(doc[k])})
        found ==
            IF includes(msg, MsgExpectedColon) /\ colon >= 0
            THEN <<colon, indexOf(doc[colon + 1], trim(doc[colon + 1]))>>
            ELSE IF (includes(msg, MsgExpectedColon) \/ includes(msg, MsgExpectedSemicolon)
                        \/ includes(msg, MsgSemicolon)) /\ semi >= 0
            THEN <<semi, Len(doc[semi + 1]) - 1>>
            ELSE IF (includes(msg, MsgExpectedColon) \/ includes(msg, MsgExpectedSemicolon)
                        \/ includes(msg, MsgSemicolon) \/ includes(msg, MsgExpectedBrace))
                    /\ brace >= 0
            THEN <<brace, Len(doc[brace + 1])>>
            ELSE <<0, 0>>
    IN  Range(Position(found[1], found[2]), Position(found[1], found[2] + 1))

findErrorLocation(msg, doc) ==
    LET found ==
            IF includes(msg, MsgExpectedColon)
            THEN LET n == FirstLine({k \in 1..Len(doc) : MissingColonLine(doc[k])})
                 IN  IF n < 0 THEN <<0, 0>>
                     ELSE <<n, indexOf(doc[n + 1], trim(doc[n + 1]))>>
            ELSE IF includes(msg, MsgExpectedSemicolon) \/ includes(msg, MsgSemicolon)
            THEN LET n == FirstLine({k \in 1..Len(doc) : MissingSemicolonLine(doc[k])})
                 IN  IF n < 0 THEN <<0, 0>> ELSE <<n, Len(doc[n + 1]) - 1>>
            ELSE IF includes(msg, MsgExpectedBrace)
            THEN LET n == FirstLine({k \in 1..Len(doc) : MissingBraceLine(doc[k])})
                 IN  IF n < 0 THEN <<0, 0>> ELSE <<n, Len(doc[n + 1])>>
            ELSE <<0, 0>>
        line == found[1]
        column == found[2]
    IN  Range(Position(line, column), Position(line, column + 1))

MaxDocLines == 2

\* the messages and the lines of the documents explored by SpecLocate
LocateMessages ==
    { MsgExpectedColon, MsgExpectedSemicolon, MsgSemicolon, MsgExpectedBrace,
      MsgExpectedColon \o <<" ">> \o MsgExpectedSemicolon,
      MsgExpectedBrace \o <<" ">> \o MsgExpectedSemicolon,
      <<"u", "n", "k", "n", "o", "w", "n", " ", "t", "y", "p", "e">> }

LocateLines ==
    { <<>>,
      <<" ", "w", " ", "P">>,
      <<"w", " ", "P">>,
      <<"a", ":", "b">>,
      <<"a", ":", "b", ";">>,
      <<"s", "t", "r", "u", "c", "t", " ", "S">>,
      <<"s", "t", "r", "u", "c", "t", " ", "S", " ", "{">> }

NoRange == Range(Position(0, 0), Position(0, 0))

IdleLocate ==
    /\ errorMessage = <<>>
    /\ document = <<>>
    /\ range = NoRange
    /\ lpc = "idle"

InitLocate ==
    /\ errorMessage \in LocateMessages
    /\ document \in UNION {[1..n -> LocateLines] : n \in 1..MaxDocLines}
    /\ range = NoRange
    /\ lpc = "ready"

Locate ==
    /\ lpc = "ready"
    /\ range' = findErrorLocation(errorMessage, document)
    /\ lpc' = "located"
    /\ UNCHANGED <<errorMessage, document, fvars, xvars, pvars, svars>>

NextLocate == Locate

\* the text of the document is not empty
NonEmptyDocument == \E k \in 1..Len(document) : document[k] # <<>>

\* C8: on a non-empty document findErrorLocation returns an in-bounds range:
\* start <= end, both on a line of the document, and neither column past the
\* end of that line's text.
C8_LocatorInBounds ==
    (lpc = "located" /\ NonEmptyDocument) =>
        /\ range.start.line = range.end.line
        /\ range.start.character <= range.end.character
        /\ range.start.line >= 0
        /\ range.start.line < Len(document)
        /\ range.start.character >= 0
        /\ range.start.character <= Len(document[range.start.line + 1])
        /\ range.end.character <= Len(document[range.end.line + 1])

(***************************************************************************)
(* activate(): the validation triggers, the debounce timer and             *)
(* validateDocument.  The editor and the lumos command line tool are the   *)
(* environment: documents are opened, changed and saved, the setting is    *)
(* switched, and each execAsync call ends with some outcome at some time.  *)
(***************************************************************************)
MaxEvents == 3

\* the documents of the workspace, in the order of workspace.textDocuments
Docs == <<"a.lumos", "b.lumos", "Untitled-1", "notes.txt">>

DocSet == {Docs[k] : k \in 1..Len(Docs)}

languageId(d) == IF d = "notes.txt" THEN "plaintext" ELSE "lumos"

isUntitled(d) == d = "Untitled-1"

Undefined == [doc |-> "", pending |-> FALSE]

\* what execAsync ends with: resolved or rejected, and the kind of stderr text:
\* none, text without an error marker, text with one
Outcomes == [rejected : BOOLEAN, stderr : {"", "unmarked", "marked"}]

\* the diagnostics parseValidationErrors builds from the error output of pass id:
\* one diagnostic when a message can be extracted, none otherwise
parseValidationErrors(errorOutput, id) ==
    IF errorOutput = "marked" THEN <<[source |-> "LUMOS", pass |-> id]>> ELSE <<>>

XState ==
    [diagnosticCollection |-> diagnosticCollection, running |-> running,
     nextPass |-> nextPass, lastStarted |-> lastStarted, computed |-> computed,
     dirty |-> dirty]

SetXState(x) ==
    /\ diagnosticCollection' = x.diagnosticCollection
    /\ running' = x.running
    /\ nextPass' = x.nextPass
    /\ lastStarted' = x.lastStarted
    /\ computed' = x.computed
    /\ dirty' = x.dirty

\* a validateDocument that does not clear the existing diagnostics
validateDocumentKeeps(x, d) ==
    LET id == x.nextPass
        x1 == [x EXCEPT !.nextPass = id + 1,
                        !.lastStarted[d] = id,
                        !.dirty[d] = FALSE]
    IN  IF isUntitled(d)
        THEN [x1 EXCEPT !.computed = @ @@ (id :> <<>>)]
        ELSE [x1 EXCEPT !.running = @ \cup {[id |-> id, doc |-> d]}]

\* validateDocument up to its await: the delete, the untitled check, the exec
validateDocument(x, d) ==
    LET id == x.nextPass
        x1 == [x EXCEPT !.diagnosticCollection[d] = <<>>,
                        !.nextPass = id + 1,
                        !.lastStarted[d] = id,
                        !.dirty[d] = FALSE]
    IN  IF isUntitled(d)
        THEN [x1 EXCEPT !.computed = @ @@ (id :> <<>>)]
        ELSE [x1 EXCEPT !.running = @ \cup {[id |-> id, doc |-> d]}]

\* validateDocument after its await, for pass p and the outcome o of the exec
validateDocumentResume(x, p, o) ==
    LET diagnostics ==
            IF o.stderr # "" THEN parseValidationErrors(o.stderr, p.id) ELSE <<>>
        x1 == [x EXCEPT !.running = @ \ {p},
                        !.computed = @ @@ (p.id :> diagnostics)]
    IN  IF Len(diagnostics) > 0
        THEN [x1 EXCEPT !.diagnosticCollection[p.doc] = diagnostics]
        ELSE x1

\* the forEach of activate over the open documents, in order, from index k
RECURSIVE validateOpenDocuments(_, _, _)
validateOpenDocuments(x, open, k) ==
    IF k > Len(Docs) THEN x
    ELSE validateOpenDocuments(
             IF Docs[k] \in open /\ languageId(Docs[k]) = "lumos"
             THEN validateDocument(x, Docs[k])
             ELSE x,
             open, k + 1)

\* no change since the timer last fired, and no timer fired yet
NoBurst == [changes |-> 0, fired |-> 0]

IdleExt ==
    /\ activated = FALSE
    /\ validationEnabled = TRUE
    /\ openDocs = {}
    /\ validationTimeout = Undefined
    /\ running = {}
    /\ diagnosticCollection = [d \in DocSet |-> <<>>]
    /\ nextPass = 1
    /\ lastStarted = [d \in DocSet |-> 0]
    /\ computed = <<>>
    /\ dirty = [d \in DocSet |-> FALSE]
    /\ events = 0
    /\ burst = NoBurst

InitExt ==
    /\ activated = FALSE
    /\ validationEnabled \in BOOLEAN
    /\ openDocs \in SUBSET DocSet
    /\ validationTimeout = Undefined
    /\ running = {}
    /\ diagnosticCollection = [d \in DocSet |-> <<>>]
    /\ nextPass = 1
    /\ lastStarted = [d \in DocSet |-> 0]
    /\ computed = <<>>
    /\ dirty = [d \in DocSet |-> FALSE]
    /\ events = 0
    /\ burst = NoBurst

\* activate(): the handlers are registered and every open lumos document is
\* validated
Activate ==
    /\ ~activated
    /\ activated' = TRUE
    /\ SetXState(validateOpenDocuments(XState, openDocs, 1))
    /\ UNCHANGED <<validationEnabled, openDocs, validationTimeout, events, burst,
                   fvars, lvars, pvars, svars>>

\* the user switches lumos.validation.enabled
SetValidationEnabled(b) ==
    /\ activated
    /\ events < MaxEvents
    /\ b # validationEnabled
    /\ validationEnabled' = b
    /\ events' = events + 1
    /\ UNCHANGED <<activated, openDocs, validationTimeout, running,
                   diagnosticCollection, nextPass, lastStarted, computed, dirty,
                   burst, fvars, lvars, pvars, svars>>

\* onDidOpenTextDocument
OpenDocument(d) ==
    /\ activated
    /\ events < MaxEvents
    /\ d \notin openDocs
    /\ openDocs' = openDocs \cup {d}
    /\ events' = events + 1
    /\ IF languageId(d) = "lumos" /\ validationEnabled
       THEN SetXState(validateDocument(XState, d))
       ELSE UNCHANGED <<running, diagnosticCollection, nextPass, lastStarted,
                        computed, dirty>>
    /\ UNCHANGED <<activated, validationEnabled, validationTimeout, burst,
                   fvars, lvars, pvars, svars>>

\* a change handler without the debounce: it validates at once
ChangeDocumentAtOnce(d) ==
    /\ activated
    /\ events < MaxEvents
    /\ d \in openDocs
    /\ events' = events + 1
    /\ IF languageId(d) # "lumos" \/ ~validationEnabled
       THEN UNCHANGED <<validationTimeout, burst, running, diagnosticCollection,
                        nextPass, lastStarted, computed, dirty>>
       ELSE /\ validationTimeout' = [doc |-> d, pending |-> TRUE]
            /\ burst' = [burst EXCEPT !.changes =
                            IF validationTimeout.pending /\ validationTimeout.doc = d
                            THEN @ + 1 ELSE 1]
            /\ SetXState(validateDocument(XState, d))
    /\ UNCHANGED <<activated, validationEnabled, openDocs, fvars, lvars, pvars, svars>>

\* onDidChangeTextDocument
ChangeDocument(d) ==
    /\ activated
    /\ events < MaxEvents
    /\ d \in openDocs
    /\ events' = events + 1
    /\ IF languageId(d) # "lumos" \/ ~validationEnabled
       THEN UNCHANGED <<validationTimeout, dirty, burst>>
       ELSE /\ validationTimeout' = [doc |-> d, pending |-> TRUE]
            /\ dirty' = [dirty EXCEPT ![d] = TRUE]
            /\ burst' = [burst EXCEPT !.changes =
                            IF validationTimeout.pending /\ validationTimeout.doc = d
                            THEN @ + 1 ELSE 1]
    /\ UNCHANGED <<activated, validationEnabled, openDocs, running,
                   diagnosticCollection, nextPass, lastStarted, computed,
                   fvars, lvars, pvars, svars>>

\* the debounce timer fires, 500 ms after it was armed
TimerFire ==
    /\ validationTimeout.pending
    /\ validationTimeout' = [validationTimeout EXCEPT !.pending = FALSE]
    /\ SetXState(validateDocument(XState, validationTimeout.doc))
    /\ burst' = [changes |-> 0, fired |-> burst.changes]
    /\ UNCHANGED <<activated, validationEnabled, openDocs, events, fvars, lvars, pvars, svars>>

\* onDidSaveTextDocument
SaveDocument(d) ==
    /\ activated
    /\ events < MaxEvents
    /\ d \in openDocs
    /\ ~isUntitled(d)
    /\ events' = events + 1
    /\ IF languageId(d) = "lumos" /\ validationEnabled
       THEN SetXState(validateDocument(XState, d))
       ELSE UNCHANGED <<running, diagnosticCollection, nextPass, lastStarted,
                        computed, dirty>>
    /\ UNCHANGED <<activated, validationEnabled, openDocs, validationTimeout, burst,
                   fvars, lvars, pvars, svars>>

\* the execAsync of pass p ends with outcome o and validateDocument resumes
ExecDone(p, o) ==
    /\ p \in running
    /\ SetXState(validateDocumentResume(XState, p, o))
    /\ UNCHANGED <<activated, validationEnabled, openDocs, validationTimeout,
                   events, burst, fvars, lvars, pvars, svars>>

ExecDoneSome == \E p \in running, o \in Outcomes : ExecDone(p, o)

NextExt ==
    \/ Activate
    \/ \E b \in BOOLEAN : SetValidationEnabled(b)
    \/ \E d \in DocSet : OpenDocument(d)
    \/ \E d \in DocSet : ChangeDocument(d)
    \/ \E d \in DocSet : SaveDocument(d)
    \/ TimerFire
    \/ ExecDoneSome

\* the timing under which the passes of a document run one at a time: no pass
\* of a document is started while another pass of it waits for its exec
OneAtATime ==
    \A d \in DocSet :
        lastStarted'[d] # lastStarted[d] => \A p \in running : p.doc # d

NextOneAtATime ==
    \/ Activate /\ OneAtATime
    \/ \E b \in BOOLEAN : SetValidationEnabled(b) /\ OneAtATime
    \/ \E d \in DocSet : OpenDocument(d) /\ OneAtATime
    \/ \E d \in DocSet : ChangeDocument(d) /\ OneAtATime
    \/ \E d \in DocSet : SaveDocument(d) /\ OneAtATime
    \/ TimerFire /\ OneAtATime
    \/ ExecDoneSome /\ OneAtATime

(***************************************************************************)
(* Single calls of the helper functions: the arguments are chosen at the   *)
(* start, the one step is the call.                                        *)
(***************************************************************************)
NoValue == <<"no value">>

IdleCall ==
    /\ args = NoValue
    /\ ret = NoValue
    /\ ppc = "idle"

MaxFields == 2
MaxLevel == 1

\* the field lines of the batches explored by SpecAlign
AlignLines ==
    { <<"n", "a", "m", "e", ":", " ", "S", "t", "r", "i", "n", "g", ",">>,
      <<"b", "a", "l", "a", "n", "c", "e", ":", " ", "u", "6", "4", ",">>,
      <<"x">>,
      <<":", "z">> }

Batches == UNION {[1..n -> AlignLines] : n \in 0..MaxFields}

InitAlign ==
    /\ args \in [fields : Batches, indentLevel : 0..MaxLevel, indentSize : IndentSizes]
    /\ ret = NoValue
    /\ ppc = "alignStructFields"

\* this.alignStructFields(fields, indentLevel, indentSize)
Align ==
    /\ ppc = "alignStructFields"
    /\ ret' = alignStructFields(args.fields, args.indentLevel, args.indentSize)
    /\ ppc' = "returned"
    /\ UNCHANGED <<args, fvars, lvars, xvars, svars>>

NextAlign == Align

(***************************************************************************)
(* parseValidationErrors on the text of the error output: the two regular  *)
(* expressions, matched as the regular expression engine matches them.     *)
(***************************************************************************)
UpperCase ==
    <<"A", "B", "C", "D", "E", "F", "G", "H", "I", "J", "K", "L", "M", "N", "O", "P", "Q", "R", "S", "T", "U", "V", "W", "X", "Y", "Z">>
LowerCase ==
    <<"a", "b", "c", "d", "e", "f", "g", "h", "i", "j", "k", "l", "m", "n", "o", "p", "q", "r", "s", "t", "u", "v", "w", "x", "y", "z">>

toLowerCaseChar(c) ==
    IF \E k \in 1..Len(UpperCase) : UpperCase[k] = c
    THEN LowerCase[CHOOSE k \in 1..Len(UpperCase) : UpperCase[k] = c]
    ELSE c

toLowerCase(s) == [k \in 1..Len(s) |-> toLowerCaseChar(s[k])]

\* the characters that . does not match
LineTerminators == {"\n", "\r"}

MarkerCausedBy == <<"C", "a", "u", "s", "e", "d", " ", "b", "y", ":">>
MarkerSchema == <<"S", "c", "h", "e", "m", "a", " ", "p", "a", "r", "s", "i", "n", "g", " ", "e", "r", "r", "o", "r", ":">>
MarkerError == <<"E", "r", "r", "o", "r", ":">>
LumosPrefix == <<"L", "U", "M", "O", "S", ":", " ">>

\* the literal lit matches at index p of t (1-based), letter case ignored
MatchesAt(t, p, lit) ==
    /\ p + Len(lit) - 1 <= Len(t)
    /\ toLowerCase(SubSeq(t, p, p + Len(lit) - 1)) = toLowerCase(lit)

\* \s*: the number of white space characters of t from index r on
RECURSIVE WsRun(_, _)
WsRun(t, r) ==
    IF r <= Len(t) /\ t[r] \in Whitespace THEN 1 + WsRun(t, r + 1) ELSE 0

\* the index of the last character of the run of . characters that starts at r
RECURSIVE DotRunEnd(_, _)
DotRunEnd(t, r) ==
    IF r <= Len(t) /\ t[r] \notin LineTerminators THEN DotRunEnd(t, r + 1) ELSE r - 1

NoMatch == <<"no match">>

\* (.+?)(?:\n|$) tried at index r: the capture, or NoMatch
CaptureAt(t, r) ==
    LET e == DotRunEnd(t, r)
    IN  IF e >= r /\ (e = Len(t) \/ t[e + 1] = "\n") THEN SubSeq(t, r, e) ELSE NoMatch

\* the indices r + n, ..., r: a greedy \s* that gives back one character at a time
Down(r, n) == [k \in 1..(n + 1) |-> r + n + 1 - k]

\* the first capture that succeeds at the indices cands, taken in order
RECURSIVE FirstCapture(_, _)
FirstCapture(t, cands) ==
    IF cands = <<>> THEN NoMatch
    ELSE IF CaptureAt(t, Head(cands)) # NoMatch THEN CaptureAt(t, Head(cands))
    ELSE FirstCapture(t, Tail(cands))

\* where the capture of the first expression is tried after a marker ending
\* before index q, in backtracking order: \s* of n1, n1 - 1, ..., 0 characters,
\* each with the optional sub-marker first when it is there, then without it
RECURSIVE CausedByCandidates(_, _, _)
CausedByCandidates(t, q, n1) ==
    IF n1 < 0 THEN <<>>
    ELSE LET r1 == q + n1
             r2 == r1 + Len(MarkerSchema)
         IN  (IF MatchesAt(t, r1, MarkerSchema) THEN Down(r2, WsRun(t, r2)) ELSE <<>>)
                 \o <<r1>> \o CausedByCandidates(t, q, n1 - 1)

\* /Caused by:\s*(?:Schema parsing error:\s*)?(.+?)(?:\n|$)/i.exec(t): group 1
execCausedByAt(t, p) ==
    IF ~MatchesAt(t, p, MarkerCausedBy) THEN NoMatch
    ELSE LET q == p + Len(MarkerCausedBy)
         IN  FirstCapture(t, CausedByCandidates(t, q, WsRun(t, q)))

\* /(?:Error|error):\s*(.+?)(?:\n|$)/i.exec(t): group 1
execErrorAt(t, p) ==
    IF ~MatchesAt(t, p, MarkerError) THEN NoMatch
    ELSE LET q == p + Len(MarkerError)
         IN  FirstCapture(t, Down(q, WsRun(t, q)))

\* exec: the match at the leftmost index where the expression matches
execCausedBy(t) ==
    LET starts == {p \in 1..Len(t) : execCausedByAt(t, p) # NoMatch}
    IN  IF starts = {} THEN NoMatch
        ELSE execCausedByAt(t, CHOOSE p \in starts : \A o \in starts : p <= o)

execError(t) ==
    LET starts == {p \in 1..Len(t) : execErrorAt(t, p) # NoMatch}
    IN  IF starts = {} THEN NoMatch
        ELSE execErrorAt(t, CHOOSE p \in starts : \A o \in starts : p <= o)

\* the message parseValidationErrors extracts, '' when there is none
extractMessage(errorOutput) ==
    LET causedByMatch == execCausedBy(errorOutput)
        first == IF causedByMatch # NoMatch THEN trim(causedByMatch) ELSE <<>>
        errorMatch == execError(errorOutput)
    IN  IF first # <<>> THEN first
        ELSE IF errorMatch # NoMatch THEN trim(errorMatch) ELSE <<>>

\* parseValidationErrors without the diagnostic for a message the scan cannot place
parseValidationErrorsTextLocated(errorOutput, doc) ==
    LET msg == extractMessage(errorOutput)
    IN  IF msg # <<>> /\ findErrorLocation(msg, doc).start # Position(0, 0)
        THEN <<[range |-> findErrorLocation(msg, doc),
                message |-> LumosPrefix \o msg,
                severity |-> "Error", source |-> "LUMOS"]>>
        ELSE <<>>

\* parseValidationErrors(errorOutput, document), on the text of errorOutput
parseValidationErrorsText(errorOutput, doc) ==
    LET msg == extractMessage(errorOutput)
    IN  IF msg # <<>>
        THEN <<[range |-> findErrorLocation(msg, doc),
                message |-> LumosPrefix \o msg,
                severity |-> "Error", source |-> "LUMOS"]>>
        ELSE <<>>

MaxChunks == 3

\* the pieces of the error outputs explored by SpecParse
ParseChunks ==
    { MarkerCausedBy, MarkerSchema,
      <<"E", "R", "R", "O", "R", ":">>,
      <<" ">>, <<"\n">>, <<"\r", "\n">>, <<"x">>, MsgExpectedColon }

RECURSIVE ParseTexts(_)
ParseTexts(n) ==
    IF n = 0 THEN {<<>>}
    ELSE LET shorter == ParseTexts(n - 1)
         IN  shorter \cup {t \o c : t \in shorter, c \in ParseChunks}

ParseDocuments == { <<<<"a", ":", "b", ";">>>>, <<<<"s", "t", "r", "u", "c", "t", " ", "S", " ", "{">>, <<" ", "w", " ", "P">>>> }

InitParse ==
    /\ args \in [errorOutput : ParseTexts(MaxChunks), document : ParseDocuments]
    /\ ret = NoValue
    /\ ppc = "parseValidationErrors"

\* parseValidationErrors(errorOutput, document)
Parse ==
    /\ ppc = "parseValidationErrors"
    /\ ret' = parseValidationErrorsText(args.errorOutput, args.document)
    /\ ppc' = "returned"
    /\ UNCHANGED <<args, fvars, lvars, xvars, svars>>

NextParse == Parse

(***************************************************************************)
(* LumosCodeActionProvider: the quick fixes.  A CodeAction is a record of  *)
(* its title, its one edit and isPreferred; an edit inserts text at        *)
(* (line, character) or replaces (line, character)-(line, endCharacter).   *)
(***************************************************************************)
\* returned by a fix builder that returns undefined
NoFix == [title |-> "undefined"]

Insert(line, character, newText) ==
    [op |-> "insert", line |-> line, character |-> character,
     endCharacter |-> character, text |-> newText]

Replace(line, character, endCharacter, newText) ==
    [op |-> "replace", line |-> line, character |-> character,
     endCharacter |-> endCharacter, text |-> newText]

CodeAction(title, edit) == [title |-> title, edit |-> edit, isPreferred |-> TRUE]

\* document.lineAt(diagnostic.range.start.line).text
lineAt(doc, diagnostic) == doc[diagnostic.line + 1]

\* the index of the last character of the run of \w characters that starts at p
RECURSIVE WordRunEnd(_, _)
WordRunEnd(s, p) ==
    IF p <= Len(s) /\ s[p] \in WordChars THEN WordRunEnd(s, p + 1) ELSE p - 1

\* /(\w+)\s+(\w+)/ matches s from index p on
TwoTokensAt(s, p) ==
    LET e == WordRunEnd(s, p)
        w == WsRun(s, e + 1)
    IN  /\ e >= p
        /\ w >= 1
        /\ e + w + 1 <= Len(s)
        /\ s[e + w + 1] \in WordChars

createAddColonFix(doc, diagnostic) ==
    LET lineText == lineAt(doc, diagnostic)
        starts == {p \in 1..Len(lineText) : TwoTokensAt(lineText, p)}
    IN  IF starts = {} THEN NoFix
        ELSE LET p == CHOOSE q \in starts : \A o \in starts : q <= o
                 fieldName == SubSeq(lineText, p, WordRunEnd(lineText, p))
             IN  CodeAction("Add colon after field name",
                            Insert(diagnostic.line,
                                   indexOf(lineText, fieldName) + Len(fieldName),
                                   Colon))

createAddSemicolonFix(doc, diagnostic) ==
    LET lineText == trimEnd(lineAt(doc, diagnostic))
    IN  CodeAction("Add semicolon at end of line",
                   Insert(diagnostic.line, Len(lineText), Semicolon))

\* Object.entries(typeMappings), in insertion order
typeMappings ==
    << <<<<"p", "u", "b", "k", "e", "y">>, <<"P", "u", "b", "l", "i", "c", "K", "e", "y">>>>,
       <<<<"p", "u", "b", "l", "i", "c", "k", "e", "y">>, <<"P", "u", "b", "l", "i", "c", "K", "e", "y">>>>,
       <<<<"s", "i", "g", "n", "a", "t", "u", "r", "e">>, <<"S", "i", "g", "n", "a", "t", "u", "r", "e">>>>,
       <<<<"v", "e", "c">>, <<"V", "e", "c">>>>,
       <<<<"o", "p", "t", "i", "o", "n">>, <<"O", "p", "t", "i", "o", "n">>>>,
       <<<<"s", "t", "r", "i", "n", "g">>, <<"S", "t", "r", "i", "n", "g">>>> >>

\* \bword\b with the i flag matches s at index p
WholeWordAt(s, p, word) ==
    /\ MatchesAt(s, p, word)
    /\ (p = 1 \/ s[p - 1] \notin WordChars)
    /\ (p + Len(word) > Len(s) \/ s[p + Len(word)] \notin WordChars)

\* regex.test(lineText)
TestWholeWord(s, word) == \E p \in 1..Len(s) : WholeWordAt(s, p, word)

\* a replace without the g flag: the first match only
RECURSIVE ReplaceFirstWholeWord(_, _, _, _)
ReplaceFirstWholeWord(s, p, word, correct) ==
    IF p > Len(s) THEN <<>>
    ELSE IF WholeWordAt(s, p, word)
    THEN correct \o SubSeq(s, p + Len(word), Len(s))
    ELSE <<s[p]>> \o ReplaceFirstWholeWord(s, p + 1, word, correct)

\* lineText.replace(regex, correct) with the g flag, from index p on
RECURSIVE ReplaceWholeWord(_, _, _, _)
ReplaceWholeWord(s, p, word, correct) ==
    IF p > Len(s) THEN <<>>
    ELSE IF WholeWordAt(s, p, word)
    THEN correct \o ReplaceWholeWord(s, p + Len(word), word, correct)
    ELSE <<s[p]>> \o ReplaceWholeWord(s, p + 1, word, correct)

\* the for loop over the entries of typeMappings, from entry k on
RECURSIVE FixTypeCasingFrom(_, _, _)
FixTypeCasingFrom(lineText, line, k) ==
    IF k > Len(typeMappings) THEN NoFix
    ELSE LET wrong == typeMappings[k][1]
             correct == typeMappings[k][2]
         IN  IF TestWholeWord(lineText, wrong)
             THEN CodeAction(<<"Change", wrong, correct>>,
                             Replace(line, 0, Len(lineText),
                                     ReplaceWholeWord(lineText, 1, wrong, correct)))
             ELSE FixTypeCasingFrom(lineText, line, k + 1)

createFixTypeCasingFix(doc, diagnostic) ==
    FixTypeCasingFrom(lineAt(doc, diagnostic), diagnostic.line, 1)

Lookahead == 5

SolanaAttribute == <<"#", "[", "s", "o", "l", "a", "n", "a", "]">>

Min(a, b) == IF a <= b THEN a ELSE b

\* lineText.match(/^\s*/)[0]
leadingWhitespace(s) == SubSeq(s, 1, WsRun(s, 1))

createAddSolanaAttributeFix(doc, diagnostic) ==
    LET start == diagnostic.line
        window == {n \in start..(Min(start + Lookahead, Len(doc)) - 1) :
                      includes(doc[n + 1], KwStruct)}
        structLine == IF window = {} THEN start
                      ELSE CHOOSE n \in window : \A o \in window : n <= o
        indentation == leadingWhitespace(doc[structLine + 1])
    IN  CodeAction("Add #[solana] attribute",
                   Insert(structLine, 0, indentation \o SolanaAttribute \o NL))

\* the triggers of the four fixes, on the lowercased message
TriggerExpectedColon ==
    << <<"e", "x", "p", "e", "c", "t", "e", "d", " ", Backtick, ":", Backtick>>,
       <<"e", "x", "p", "e", "c", "t", "e", "d", " ", "\"", ":", "\"">> >>
TriggerExpectedSemicolon ==
    << <<"e", "x", "p", "e", "c", "t", "e", "d", " ", Backtick, ";", Backtick>>,
       <<"e", "x", "p", "e", "c", "t", "e", "d", " ", "\"", ";", "\"">>,
       <<"s", "e", "m", "i", "c", "o", "l", "o", "n">> >>
TriggerTypeCasing == << <<"p", "u", "b", "k", "e", "y">>, <<"u", "n", "k", "n", "o", "w", "n", " ", "t", "y", "p", "e">> >>
TriggerSolana == << <<"s", "o", "l", "a", "n", "a">>, <<"a", "t", "t", "r", "i", "b", "u", "t", "e">> >>

includesAny(message, phrases) ==
    \E k \in 1..Len(phrases) : includes(message, phrases[k])

includesAll(message, phrases) ==
    \A k \in 1..Len(phrases) : includes(message, phrases[k])

\* if (fix) codeActions.push(fix)
pushFix(codeActions, triggered, fix) ==
    IF triggered /\ fix # NoFix THEN Append(codeActions, fix) ELSE codeActions

\* a loop body that stops at the first fix whose trigger matches
actionsForExclusive(codeActions, doc, diagnostic) ==
    LET message == toLowerCase(diagnostic.message)
    IN  IF diagnostic.source # "LUMOS" THEN codeActions
        ELSE IF includesAny(message, TriggerExpectedColon)
        THEN pushFix(codeActions, TRUE, createAddColonFix(doc, diagnostic))
        ELSE IF includesAny(message, TriggerExpectedSemicolon)
        THEN pushFix(codeActions, TRUE, createAddSemicolonFix(doc, diagnostic))
        ELSE IF includesAny(message, TriggerTypeCasing)
        THEN pushFix(codeActions, TRUE, createFixTypeCasingFix(doc, diagnostic))
        ELSE pushFix(codeActions, includesAll(message, TriggerSolana),
                     createAddSolanaAttributeFix(doc, diagnostic))

\* the body of the for loop of provideCodeActions on one diagnostic
actionsFor(codeActions, doc, diagnostic) ==
    LET message == toLowerCase(diagnostic.message)
        a1 == pushFix(codeActions, includesAny(message, TriggerExpectedColon),
                      createAddColonFix(doc, diagnostic))
        a2 == pushFix(a1, includesAny(message, TriggerExpectedSemicolon),
                      createAddSemicolonFix(doc, diagnostic))
        a3 == pushFix(a2, includesAny(message, TriggerTypeCasing),
                      createFixTypeCasingFix(doc, diagnostic))
        a4 == pushFix(a3, includesAll(message, TriggerSolana),
                      createAddSolanaAttributeFix(doc, diagnostic))
    IN  IF diagnostic.source # "LUMOS" THEN codeActions ELSE a4

\* provideCodeActions(document, range, context, token), context.diagnostics
\* being diagnostics; the loop from diagnostic k on
RECURSIVE provideCodeActionsFrom(_, _, _, _)
provideCodeActionsFrom(codeActions, doc, diagnostics, k) ==
    IF k > Len(diagnostics) THEN codeActions
    ELSE provideCodeActionsFrom(actionsFor(codeActions, doc, diagnostics[k]),
                                doc, diagnostics, k + 1)

provideCodeActions(doc, diagnostics) == provideCodeActionsFrom(<<>>, doc, diagnostics, 1)

MaxDiagnostics == 2

\* the phrases of the messages, the lines and the documents explored by SpecActions
ActionPhrases ==
    << <<"E", "x", "p", "e", "c", "t", "e", "d", " ", Backtick, ":", Backtick>>,
       <<"s", "e", "m", "i", "c", "o", "l", "o", "n">>,
       <<"u", "n", "k", "n", "o", "w", "n", " ", "t", "y", "p", "e">>,
       <<"s", "o", "l", "a", "n", "a", " ", "a", "t", "t", "r", "i", "b", "u", "t", "e">> >>

ActionMessages ==
    {LumosPrefix}
        \cup {LumosPrefix \o ActionPhrases[a] : a \in 1..Len(ActionPhrases)}
        \cup {LumosPrefix \o ActionPhrases[a] \o <<" ">> \o ActionPhrases[a + 1] :
                 a \in 1..(Len(ActionPhrases) - 1)}

ActionLines == { <<"w", "a", "l", "l", "e", "t", " ", "P", "u", "b", "l", "i", "c", "K", "e", "y">>, <<"a", ":", " ", "p", "u", "b", "k", "e", "y", ",">>, <<"x">> }

ActionDocuments == {<<l>> : l \in ActionLines} \cup { <<<<"x">>, <<"w", "a", "l", "l", "e", "t", " ", "P", "u", "b", "l", "i", "c", "K", "e", "y">>>> }

\* the diagnostics a document can carry: those of this extension, on any of its
\* lines, and one of another extension
DiagnosticsOf(doc) ==
    [source : {"LUMOS"}, message : ActionMessages, line : 0..(Len(doc) - 1)]
        \cup [source : {"other"}, message : {LumosPrefix \o ActionPhrases[2]},
              line : {0}]

ActionArgs ==
    UNION {[document : {doc},
            diagnostics : UNION {[1..n -> DiagnosticsOf(doc)] : n \in 0..MaxDiagnostics}] :
              doc \in ActionDocuments}

InitActions ==
    /\ args \in ActionArgs
    /\ ret = NoValue
    /\ ppc = "provideCodeActions"

\* provideCodeActions(document, range, context, token)
ProvideCodeActions ==
    /\ ppc = "provideCodeActions"
    /\ ret' = provideCodeActions(args.document, args.diagnostics)
    /\ ppc' = "returned"
    /\ UNCHANGED <<args, fvars, lvars, xvars, svars>>

NextActions == ProvideCodeActions

MaxLineLength == 5

\* the characters of the anchor lines explored by SpecColonFix
ColonChars == {"a", "b", ":", " "}

ColonLines ==
    UNION {[1..n -> ColonChars] : n \in 0..MaxLineLength} \cup { <<"w", "a", "l", "l", "e", "t", " ", "P", "u", "b", "l", "i", "c", "K", "e", "y">> }

\* a diagnostic of this extension on line n
DiagnosticAt(n) == [source |-> "LUMOS", message |-> LumosPrefix, line |-> n]

InitColonFix ==
    /\ args \in [lineText : ColonLines]
    /\ ret = NoValue
    /\ ppc = "createAddColonFix"

\* this.createAddColonFix(document, diagnostic)
CreateAddColonFix ==
    /\ ppc = "createAddColonFix"
    /\ ret' = createAddColonFix(<<args.lineText>>, DiagnosticAt(0))
    /\ ppc' = "returned"
    /\ UNCHANGED <<args, fvars, lvars, xvars, svars>>

NextColonFix == CreateAddColonFix

MaxPieces == 3

\* the pieces of the anchor lines explored by SpecCasingFix
CasingPieces ==
    { <<"p", "u", "b", "k", "e", "y">>, <<"P", "u", "b", "K", "e", "y">>, <<"s", "t", "r", "i", "n", "g">>, <<"v", "e", "c">>,
      <<"V", "e", "c">>, <<"_">>, <<":">>, <<" ">>, <<"x">> }

RECURSIVE CasingLines(_)
CasingLines(n) ==
    IF n = 0 THEN {<<>>}
    ELSE LET shorter == CasingLines(n - 1)
         IN  shorter \cup {l \o c : l \in shorter, c \in CasingPieces}

InitCasingFix ==
    /\ args \in [casingLine : CasingLines(MaxPieces) \cup { <<"f", "i", "e", "l", "d", ":", " ", "p", "u", "b", "k", "e", "y", ",">> }]
    /\ ret = NoValue
    /\ ppc = "createFixTypeCasingFix"

\* this.createFixTypeCasingFix(document, diagnostic)
CreateFixTypeCasingFix ==
    /\ ppc = "createFixTypeCasingFix"
    /\ ret' = createFixTypeCasingFix(<<args.casingLine>>, DiagnosticAt(0))
    /\ ppc' = "returned"
    /\ UNCHANGED <<args, fvars, lvars, xvars, svars>>

NextCasingFix == CreateFixTypeCasingFix

MaxSolanaLines == 6

\* the lines of the documents explored by SpecSolanaFix
SolanaLines == { <<"x", ":", " ", "u", "8", ",">>, <<" ", " ", "s", "t", "r", "u", "c", "t", " ", "S", " ", "{">> }

InitSolanaFix ==
    /\ args \in UNION {[solanaDocument : [1..n -> SolanaLines], line : 0..(n - 1)] :
                          n \in 1..MaxSolanaLines}
    /\ ret = NoValue
    /\ ppc = "createAddSolanaAttributeFix"

\* this.createAddSolanaAttributeFix(document, diagnostic)
CreateAddSolanaAttributeFix ==
    /\ ppc = "createAddSolanaAttributeFix"
    /\ ret' = createAddSolanaAttributeFix(args.solanaDocument, DiagnosticAt(args.line))
    /\ ppc' = "returned"
    /\ UNCHANGED <<args, fvars, lvars, xvars, svars>>

NextSolanaFix == CreateAddSolanaAttributeFix

(***************************************************************************)
(* startLSPClient, with ensureLSPServer, findLSPInPath and                 *)
(* installLSPServer: one step per await.  The PATH lookup, the user's      *)
(* answer to the prompt, cargo and the server start are the environment.   *)
(***************************************************************************)
DefaultLspPath == "lumos-lsp"
CustomLspPath == "/opt/lumos/bin/lumos-lsp"

\* what "which lumos-lsp" prints when the binary is on the PATH
PathLookups == {"/usr/local/bin/lumos-lsp"}

TraceLevels == {"off", "messages", "verbose"}

LspUndefined == "undefined"

\* the module's client when undefined; a client is a one-element sequence
NoClient == <<>>

IdleLsp ==
    /\ lspConfig = [enable |-> TRUE, path |-> DefaultLspPath, autoInstall |-> TRUE,
                    trace |-> "off"]
    /\ lspPath = LspUndefined
    /\ client = NoClient
    /\ spc = "idle"
    /\ deactivated = FALSE

InitLsp ==
    /\ lspConfig \in [enable : BOOLEAN, path : {DefaultLspPath, CustomLspPath},
                      autoInstall : BOOLEAN, trace : TraceLevels]
    /\ lspPath = LspUndefined
    /\ client = NoClient
    /\ spc = "start"
    /\ deactivated = FALSE

\* new LanguageClient(..., serverOptions, clientOptions) with command: lspPath
\* state: "starting" until client.start() settles, then "running"; "stopped"
\* once client.stop() has been called
LanguageClient(command) == <<[command |-> command, args |-> <<>>, state |-> "starting"]>>

\* startLSPClient once ensureLSPServer has returned found: the client is
\* created and client.start() awaited, or the function returns
ServerEnsured(found) ==
    /\ lspPath' = found
    /\ IF found = LspUndefined
       THEN client' = client /\ spc' = "returned"
       ELSE client' = LanguageClient(found) /\ spc' = "client.start"

\* startLSPClient up to the first await, in ensureLSPServer
StartLSPClient ==
    /\ spc = "start"
    /\ spc' = IF lspConfig.enable THEN "findLSPInPath" ELSE "returned"
    /\ UNCHANGED <<lspConfig, lspPath, client, deactivated, fvars, lvars, xvars, pvars>>

\* findLSPInPath resolves; ensureLSPServer goes on
FindLSPInPathDone(found) ==
    /\ spc = "findLSPInPath"
    /\ IF found # LspUndefined THEN ServerEnsured(found)
       ELSE IF ~lspConfig.autoInstall THEN ServerEnsured(LspUndefined)
       ELSE /\ spc' = "showInformationMessage"
            /\ UNCHANGED <<lspPath, client>>
    /\ UNCHANGED <<lspConfig, deactivated, fvars, lvars, xvars, pvars>>

\* the user answers the install prompt, or dismisses it
PromptDone(choice) ==
    /\ spc = "showInformationMessage"
    /\ IF choice = "Install Now"
       THEN spc' = "cargo install" /\ UNCHANGED <<lspPath, client>>
       ELSE ServerEnsured(LspUndefined)
    /\ UNCHANGED <<lspConfig, deactivated, fvars, lvars, xvars, pvars>>

\* cargo install ends; installLSPServer looks the binary up again or gives up
InstallDone(installed) ==
    /\ spc = "cargo install"
    /\ IF installed
       THEN spc' = "findLSPInPath after install" /\ UNCHANGED <<lspPath, client>>
       ELSE ServerEnsured(LspUndefined)
    /\ UNCHANGED <<lspConfig, deactivated, fvars, lvars, xvars, pvars>>

\* the lookup after the install resolves
FindAfterInstallDone(found) ==
    /\ spc = "findLSPInPath after install"
    /\ ServerEnsured(found)
    /\ UNCHANGED <<lspConfig, deactivated, fvars, lvars, xvars, pvars>>

\* client.start() settles
ClientStartDone(started) ==
    /\ spc = "client.start"
    /\ client' = IF ~started THEN NoClient
                 ELSE <<[client[1] EXCEPT !.state = IF @ = "starting" THEN "running"
                                                     ELSE @]>>
    /\ spc' = "returned"
    /\ UNCHANGED <<lspConfig, lspPath, deactivated, fvars, lvars, xvars, pvars>>

\* deactivate(): the client is stopped if there is one
Deactivate ==
    /\ activated
    /\ ~deactivated
    /\ deactivated' = TRUE
    /\ client' = IF client # NoClient THEN <<[client[1] EXCEPT !.state = "stopped"]>>
                 ELSE client
    /\ UNCHANGED <<lspConfig, lspPath, spc, fvars, lvars, xvars, pvars>>

NextLsp ==
    \/ StartLSPClient
    \/ \E found \in PathLookups \cup {LspUndefined} : FindLSPInPathDone(found)
    \/ \E choice \in {"Install Now", "Not Now", "Learn More", LspUndefined} :
          PromptDone(choice)
    \/ \E installed \in BOOLEAN : InstallDone(installed)
    \/ \E found \in PathLookups \cup {LspUndefined} : FindAfterInstallDone(found)
    \/ \E started \in BOOLEAN : ClientStartDone(started)

\* the extension after activate() with one lumos document open: activate has
\* launched startLSPClient, which runs up to its first await
InitLifecycle ==
    /\ activated = FALSE
    /\ validationEnabled = TRUE
    /\ openDocs = {"a.lumos"}
    /\ validationTimeout = Undefined
    /\ running = {}
    /\ diagnosticCollection = [d \in DocSet |-> <<>>]
    /\ nextPass = 1
    /\ lastStarted = [d \in DocSet |-> 0]
    /\ computed = <<>>
    /\ dirty = [d \in DocSet |-> FALSE]
    /\ events = 0
    /\ burst = NoBurst
    /\ lspConfig \in [enable : BOOLEAN, path : {DefaultLspPath},
                      autoInstall : BOOLEAN, trace : {"off"}]
    /\ lspPath = LspUndefined
    /\ client = NoClient
    /\ spc = "start"
    /\ deactivated = FALSE

\* activate(), the editor events while the handlers are registered, the timer,
\* the execs, the steps of startLSPClient, and deactivate()
NextLifecycle ==
    \/ spc = "start" /\ ~activated /\ StartLSPClient
    \/ spc # "start" /\ Activate
    \/ \E d \in DocSet : ~deactivated /\ ChangeDocument(d)
    \/ \E d \in DocSet : ~deactivated /\ SaveDocument(d)
    \/ TimerFire
    \/ ExecDoneSome
    \/ \E found \in PathLookups \cup {LspUndefined} : activated /\ FindLSPInPathDone(found)
    \/ \E choice \in {"Install Now", "Not Now", "Learn More", LspUndefined} :
          activated /\ PromptDone(choice)
    \/ \E installed \in BOOLEAN : activated /\ InstallDone(installed)
    \/ \E found \in PathLookups \cup {LspUndefined} :
          activated /\ FindAfterInstallDone(found)
    \/ \E started \in BOOLEAN : activated /\ ClientStartDone(started)
    \/ Deactivate

(***************************************************************************)
(* The specifications.                                                     *)
(***************************************************************************)
Init == IdleFormat /\ IdleLocate /\ InitExt /\ IdleCall /\ IdleLsp

FormatterInit == InitFormat /\ IdleLocate /\ IdleExt /\ IdleCall /\ IdleLsp

LocatorInit == IdleFormat /\ InitLocate /\ IdleExt /\ IdleCall /\ IdleLsp

\* the extension in the editor
Spec == Init /\ [][NextExt]_vars

\* the extension when the passes of each document run one at a time
SpecOneAtATime == Init /\ [][NextOneAtATime]_vars

\* the same, with what the scheduling guarantees: a pending timer fires and a
\* started exec ends (it is given a timeout of 5 s)
LiveSpec == Spec /\ WF_vars(TimerFire) /\ WF_vars(ExecDoneSome)

\* the formatter on documents of up to MaxLines lines
SpecFormat == FormatterInit /\ [][NextFormat]_vars

\* the formatter on longer documents, of fewer kinds of lines
SpecFormatDeep == FormatterInit /\ [][NextFormatDeep]_vars

SiblingsInit == InitFormatAligned /\ IdleLocate /\ IdleExt /\ IdleCall /\ IdleLsp

\* formatDocument, alignFields set, on documents of several structs
SpecFormatSiblings == SiblingsInit /\ [][NextFormatSiblings]_vars

\* formatDocument on documents of nested blocks
SpecFormatBlocks == FormatterInit /\ [][NextFormatBlocks]_vars

\* formatDocument on documents of enum declarations
SpecFormatEnum == FormatterInit /\ [][NextFormatEnum]_vars

\* findErrorLocation on documents of up to MaxDocLines lines
SpecLocate == LocatorInit /\ [][NextLocate]_vars

AlignInit == IdleFormat /\ IdleLocate /\ IdleExt /\ InitAlign /\ IdleLsp

\* alignStructFields on batches of up to MaxFields lines
SpecAlign == AlignInit /\ [][NextAlign]_vars

ParseInit == IdleFormat /\ IdleLocate /\ IdleExt /\ InitParse /\ IdleLsp

\* parseValidationErrors on error outputs of up to MaxChunks pieces
SpecParse == ParseInit /\ [][NextParse]_vars

ActionsInit == IdleFormat /\ IdleLocate /\ IdleExt /\ InitActions /\ IdleLsp

\* provideCodeActions on up to MaxDiagnostics diagnostics
SpecActions == ActionsInit /\ [][NextActions]_vars

ColonFixInit == IdleFormat /\ IdleLocate /\ IdleExt /\ InitColonFix /\ IdleLsp

\* createAddColonFix on anchor lines of up to MaxLineLength characters
SpecColonFix == ColonFixInit /\ [][NextColonFix]_vars

CasingFixInit == IdleFormat /\ IdleLocate /\ IdleExt /\ InitCasingFix /\ IdleLsp

\* createFixTypeCasingFix on anchor lines of up to MaxPieces pieces
SpecCasingFix == CasingFixInit /\ [][NextCasingFix]_vars

SolanaFixInit == IdleFormat /\ IdleLocate /\ IdleExt /\ InitSolanaFix /\ IdleLsp

\* createAddSolanaAttributeFix on documents of up to MaxSolanaLines lines
SpecSolanaFix == SolanaFixInit /\ [][NextSolanaFix]_vars

LspInit == IdleFormat /\ IdleLocate /\ IdleExt /\ IdleCall /\ InitLsp

\* startLSPClient under every setting of lumos.lsp.*
SpecLsp == LspInit /\ [][NextLsp]_vars

LifecycleInit == IdleFormat /\ IdleLocate /\ IdleCall /\ InitLifecycle

\* activation, use and deactivation of the extension
SpecLifecycle == LifecycleInit /\ [][NextLifecycle]_vars

\* C3: once every pass on a document has completed, the diagnostics published
\* for it are the ones computed by the pass that was started last.
C3_LatestPassAuthoritative ==
    \A d \in DocSet :
        (lastStarted[d] # 0 /\ \A p \in running : p.doc # d) =>
            diagnosticCollection[d] = computed[lastStarted[d]]

\* C9: with validation enabled, every change to a lumos document is eventually
\* followed by a validation pass of that document.  dirty[d] is raised by the
\* change handler when it arms the timer and lowered when a pass of d starts;
\* the only step that starts a pass without a new event is TimerFire, on the
\* document of the last change.
C9_ChangeLeadsToValidation ==
    \A d \in DocSet : dirty[d] ~> ~dirty[d]

\* C10: while lumos.validation.enabled is false no validation pass is started.
C10_SettingRespected ==
    [][~validationEnabled => nextPass' = nextPass]_vars

\* C12: Scenario B: given the field lines "name: String," and "balance: u64,"
\* and an indent of 4 spaces, the aligner emits "    name:    String," and
\* "    balance: u64,": the colon right after each name, the padding after it.
C12_ScenarioB ==
    (/\ ppc = "returned"
     /\ args.fields = << <<"n", "a", "m", "e", ":", " ", "S", "t", "r", "i", "n", "g", ",">>,
                         <<"b", "a", "l", "a", "n", "c", "e", ":", " ", "u", "6", "4", ",">> >>
     /\ args.indentLevel * args.indentSize = 4) =>
        ret = << <<" ", " ", " ", " ", "n", "a", "m", "e", ":", " ", " ", " ", " ", "S", "t", "r", "i", "n", "g", ",">>,
                 <<" ", " ", " ", " ", "b", "a", "l", "a", "n", "c", "e", ":", " ", "u", "6", "4", ",">> >>

\* the index of the first occurrence of the marker lit in t, letter case
\* ignored; 0 when there is none
FirstMarker(t, lit) ==
    IF \E p \in 1..Len(t) : MatchesAt(t, p, lit)
    THEN CHOOSE p \in 1..Len(t) :
             MatchesAt(t, p, lit) /\ \A o \in 1..(p - 1) : ~MatchesAt(t, o, lit)
    ELSE 0

\* the text of the logical line that holds index r, from r on, trimmed; a line
\* ends at a line break (LF or CRLF) or at the end of the text
RestOfLine(t, r) == trim(SubSeq(t, r, DotRunEnd(t, r)))

\* the message that follows a marker ending before index q: the rest of the
\* line on which the non-blank text after the marker begins, an optional
\* sub-marker skipped; always means that the sub-marker is skipped even when
\* nothing follows it on its line, otherwise it is then the message itself
MessageAfter(t, q, sub, always) ==
    LET r1 == q + WsRun(t, q)
        r2 == r1 + Len(sub) + WsRun(t, r1 + Len(sub))
    IN  IF sub # <<>> /\ MatchesAt(t, r1, sub) /\ (always \/ RestOfLine(t, r2) # <<>>)
        THEN RestOfLine(t, r2)
        ELSE RestOfLine(t, r1)

\* the message the extraction priority asks for, <<>> when there is none
PriorityMessage(t, always) ==
    LET c == FirstMarker(t, MarkerCausedBy)
        e == FirstMarker(t, MarkerError)
        first == IF c > 0 THEN MessageAfter(t, c + Len(MarkerCausedBy), MarkerSchema, always)
                 ELSE <<>>
    IN  IF first # <<>> THEN first
        ELSE IF e > 0 THEN MessageAfter(t, e + Len(MarkerError), <<>>, always)
        ELSE <<>>

\* C13: the message of the diagnostic is the text that follows the first
\* "Caused by:" marker (rest of its logical line, optional sub-marker
\* skipped) when there is such text, otherwise the text that follows the
\* first "Error:" marker; with neither, no diagnostic is returned.  Either
\* reading of a sub-marker that nothing follows is accepted.
C13_ExtractionPriority ==
    (ppc = "returned" /\ "errorOutput" \in DOMAIN args) =>
        \E always \in BOOLEAN :
            LET m == PriorityMessage(args.errorOutput, always)
            IN  IF m = <<>> THEN ret = <<>>
                ELSE Len(ret) = 1 /\ ret[1].message = LumosPrefix \o m

\* the location scan finds no candidate line for msg in doc
NoCandidateLine(msg, doc) ==
    IF includes(msg, MsgExpectedColon)
    THEN \A k \in 1..Len(doc) : ~MissingColonLine(doc[k])
    ELSE IF includes(msg, MsgExpectedSemicolon) \/ includes(msg, MsgSemicolon)
    THEN \A k \in 1..Len(doc) : ~MissingSemicolonLine(doc[k])
    ELSE IF includes(msg, MsgExpectedBrace)
    THEN \A k \in 1..Len(doc) : ~MissingBraceLine(doc[k])
    ELSE TRUE

\* the number of places of t where an error marker begins
NumMarkers(t) ==
    Cardinality({p \in 1..Len(t) :
                    MatchesAt(t, p, MarkerCausedBy) \/ MatchesAt(t, p, MarkerError)})

\* C14: parseValidationErrors returns at most one diagnostic, and when a
\* message is extracted and the scan finds no candidate line exactly one,
\* at (0,0)-(0,1), its message the extracted text unchanged behind the
\* "LUMOS: " label.
C14_OneDiagnosticDefaultAnchor ==
    (ppc = "returned" /\ "errorOutput" \in DOMAIN args) =>
        LET msg == extractMessage(args.errorOutput)
        IN  /\ Len(ret) <= 1
            /\ (msg # <<>> /\ NoCandidateLine(msg, args.document)) =>
                  /\ Len(ret) = 1
                  /\ ret[1].range = Range(Position(0, 0), Position(0, 1))
                  /\ SubSeq(ret[1].message, Len(LumosPrefix) + 1,
                            Len(ret[1].message)) = msg

\* C14 witness: an error output with several markers was parsed, a message
\* was extracted, the scan ran and found no candidate line.
C14_SeveralMarkersNoCandidate ==
    /\ ppc = "returned"
    /\ "errorOutput" \in DOMAIN args
    /\ NumMarkers(args.errorOutput) >= 2
    /\ includes(extractMessage(args.errorOutput), MsgExpectedColon)
    /\ NoCandidateLine(extractMessage(args.errorOutput), args.document)
    /\ Len(ret) = 1

\* the four rules on one diagnostic, in their fixed order: whether the trigger
\* matches the lowercased message, and what the build returns
FixRules(doc, diagnostic) ==
    LET message == toLowerCase(diagnostic.message)
    IN  << [triggered |-> includesAny(message, TriggerExpectedColon),
            fix |-> createAddColonFix(doc, diagnostic)],
           [triggered |-> includesAny(message, TriggerExpectedSemicolon),
            fix |-> createAddSemicolonFix(doc, diagnostic)],
           [triggered |-> includesAny(message, TriggerTypeCasing),
            fix |-> createFixTypeCasingFix(doc, diagnostic)],
           [triggered |-> includesAll(message, TriggerSolana),
            fix |-> createAddSolanaAttributeFix(doc, diagnostic)] >>

Applies(rule) == rule.triggered /\ rule.fix # NoFix

\* the actions of the rules that apply to one diagnostic, in rule order
ActionsOfRules(doc, diagnostic) ==
    LET kept == SelectSeq(FixRules(doc, diagnostic), Applies)
    IN  IF diagnostic.source # "LUMOS" THEN <<>>
        ELSE [k \in 1..Len(kept) |-> kept[k].fix]

RECURSIVE ActionsOfAll(_, _)
ActionsOfAll(doc, diagnostics) ==
    IF diagnostics = <<>> THEN <<>>
    ELSE ActionsOfRules(doc, Head(diagnostics)) \o ActionsOfAll(doc, Tail(diagnostics))

\* C15: for every LUMOS diagnostic provideCodeActions returns one action for
\* each rule whose trigger matches and whose build succeeds, in the fixed
\* order of the rules; a rule whose build fails is left out and the actions of
\* the other rules are unaffected.
C15_RulesIndependent ==
    (ppc = "returned" /\ "diagnostics" \in DOMAIN args) =>
        ret = ActionsOfAll(args.document, args.diagnostics)

\* C15 witness: a LUMOS diagnostic triggered two rules, the build of the
\* first failed and the action of the second was returned.
C15_FailedBuildOmitted ==
    /\ ppc = "returned"
    /\ "diagnostics" \in DOMAIN args
    /\ \E k \in 1..Len(args.diagnostics) :
          LET rules == FixRules(args.document, args.diagnostics[k])
          IN  /\ args.diagnostics[k].source = "LUMOS"
              /\ rules[1].triggered /\ rules[1].fix = NoFix
              /\ rules[2].triggered
    /\ Len(ret) >= 1

\* a word token of s begins at index p and ends at index e, white space and
\* another word token follow
TokenPairAt(s, p, e) ==
    /\ s[p] \in WordChars
    /\ (p = 1 \/ s[p - 1] \notin WordChars)
    /\ e = WordRunEnd(s, p)
    /\ WsRun(s, e + 1) >= 1
    /\ e + WsRun(s, e + 1) + 1 <= Len(s)
    /\ s[e + WsRun(s, e + 1) + 1] \in WordChars

\* s with the text t inserted at the 0-based column c
InsertedAt(s, c, t) == SubSeq(s, 1, c) \o t \o SubSeq(s, c + 1, Len(s))

\* C16: on an anchor line with two whitespace-separated word tokens the fix
\* inserts ":" at the column right after the end of the first token of the
\* first such pair; on a line without such a pair no fix is returned; applied
\* to "wallet PublicKey" the fix yields "wallet: PublicKey".
C16_ColonAfterFirstToken ==
    (ppc = "returned" /\ "lineText" \in DOMAIN args) =>
        LET s == args.lineText
            pairs == {pe \in (1..Len(s)) \X (1..Len(s)) : TokenPairAt(s, pe[1], pe[2])}
        IN  IF pairs = {} THEN ret = NoFix
            ELSE LET first == CHOOSE pe \in pairs : \A o \in pairs : pe[1] <= o[1]
                 IN  /\ ret # NoFix
                     /\ ret.edit = Insert(0, first[2], Colon)
                     /\ s = <<"w", "a", "l", "l", "e", "t", " ", "P", "u", "b", "l", "i", "c", "K", "e", "y">> =>
                            InsertedAt(s, ret.edit.character, ret.edit.text) = <<"w", "a", "l", "l", "e", "t", ":", " ", "P", "u", "b", "l", "i", "c", "K", "e", "y">>

\* s cut into its words (maximal runs of word characters) and, one by one, the
\* characters between them
RECURSIVE WordsOf(_)
WordsOf(s) ==
    IF s = <<>> THEN <<>>
    ELSE IF Head(s) \in WordChars
    THEN LET e == WordRunEnd(s, 1)
         IN  <<SubSeq(s, 1, e)>> \o WordsOf(SubSeq(s, e + 1, Len(s)))
    ELSE <<<<Head(s)>>>> \o WordsOf(Tail(s))

SameWord(a, b) == toLowerCase(a) = toLowerCase(b)

RECURSIVE Concat(_)
Concat(ws) == IF ws = <<>> THEN <<>> ELSE Head(ws) \o Concat(Tail(ws))

\* s with every word that is wrong, letter case ignored, turned into correct
Canonicalized(s, wrong, correct) ==
    LET ws == WordsOf(s)
    IN  Concat([k \in 1..Len(ws) |-> IF SameWord(ws[k], wrong) THEN correct ELSE ws[k]])

\* the entries of the table that have a whole-word match on s
EntriesOn(s) ==
    {k \in 1..Len(typeMappings) :
        \E j \in 1..Len(WordsOf(s)) : SameWord(WordsOf(s)[j], typeMappings[k][1])}

\* C17: the table is scanned in the order pubkey, publickey, signature, vec,
\* option, string; at the first entry that has a whole-word match, letter case
\* ignored, the fix replaces the whole line by the line with every such word
\* turned into the canonical form, other words unchanged; "field: pubkey,"
\* becomes "field: PublicKey,"; without a match no fix is returned.
C17_FirstEntryWholeWords ==
    (ppc = "returned" /\ "casingLine" \in DOMAIN args) =>
        LET s == args.casingLine
            hits == EntriesOn(s)
        IN  /\ [k \in 1..Len(typeMappings) |-> typeMappings[k][1]]
                  = << <<"p", "u", "b", "k", "e", "y">>, <<"p", "u", "b", "l", "i", "c", "k", "e", "y">>, <<"s", "i", "g", "n", "a", "t", "u", "r", "e">>,
                       <<"v", "e", "c">>, <<"o", "p", "t", "i", "o", "n">>, <<"s", "t", "r", "i", "n", "g">> >>
            /\ IF hits = {} THEN ret = NoFix
               ELSE LET k == CHOOSE h \in hits : \A o \in hits : h <= o
                    IN  /\ ret # NoFix
                        /\ ret.edit = Replace(0, 0, Len(s),
                                              Canonicalized(s, typeMappings[k][1],
                                                            typeMappings[k][2]))
            /\ (s = <<"f", "i", "e", "l", "d", ":", " ", "p", "u", "b", "k", "e", "y", ",">>) =>
                  (ret # NoFix /\ ret.edit.text = <<"f", "i", "e", "l", "d", ":", " ", "P", "u", "b", "l", "i", "c", "K", "e", "y", ",">>)

\* C17 witness: the fix was built on a line that holds the word of the first
\* entry twice and a word of a later entry.
C17_TwoEntriesOneFixed ==
    /\ ppc = "returned"
    /\ "casingLine" \in DOMAIN args
    /\ ret # NoFix
    /\ \E a, b \in 1..Len(WordsOf(args.casingLine)) :
          /\ a # b
          /\ SameWord(WordsOf(args.casingLine)[a], typeMappings[1][1])
          /\ SameWord(WordsOf(args.casingLine)[b], typeMappings[1][1])

\* C17 witness, second case: words of two entries on the line, only the
\* first entry's word is corrected.
C17_LaterEntryUnchanged ==
    /\ ppc = "returned"
    /\ "casingLine" \in DOMAIN args
    /\ ret # NoFix
    /\ {1, 6} \subseteq EntriesOn(args.casingLine)
    /\ includes(ret.edit.text, typeMappings[6][1])

\* C18: whenever the fix is returned, the "#[solana]" line is inserted at the
\* start of a struct declaration line: the nearest one at or after the
\* diagnostic line within the 5-line window, with exactly that line's leading
\* white space as indentation.
C18_AboveNearestStruct ==
    (ppc = "returned" /\ "solanaDocument" \in DOMAIN args /\ ret # NoFix) =>
        LET doc == args.solanaDocument
            n == ret.edit.line
        IN  /\ ret.edit.op = "insert"
            /\ ret.edit.character = 0
            /\ n >= args.line /\ n < args.line + Lookahead /\ n < Len(doc)
            /\ includes(doc[n + 1], KwStruct)
            /\ \A o \in args.line..(n - 1) : ~includes(doc[o + 1], KwStruct)
            /\ ret.edit.text = leadingWhitespace(doc[n + 1]) \o SolanaAttribute \o NL

\* C19: with LSP enabled and a custom path in lumos.lsp.path, the language
\* client is started with that path as its server command.
C19_CustomPathIsServerCommand ==
    (lspConfig.enable /\ lspConfig.path = CustomLspPath /\ client # NoClient) =>
        client[1].command = lspConfig.path

\* C20: whenever a non-blank, non-attribute line of any kind is read while
\* attribute lines are buffered, the buffer is emitted before the line is
\* handled and cleared: once the loop has handled such a line no attribute
\* is left in the buffer.
C20_AttributesFlushedByAnyLine ==
    (fpc = "loop" /\ i >= 1
        /\ ~IsBlank(linesRead[i]) /\ ~IsAttributeLine(linesRead[i])) =>
            attributes = <<>>

\* line k of the lines read is a top-level enum declaration ending in {
EnumOpenAt(k) ==
    LET l == trim(linesRead[k])
        before == SubSeq(linesRead, 1, k - 1)
    IN  /\ WellNested(before) /\ Depth(before) = 0
        /\ startsWith(l, KwEnum) \/ startsWith(l, KwPubEnum)
        /\ endsWith(l, Open)

\* a line of a body that holds a colon and is of no other kind
IsColonBodyLine(l) ==
    /\ includes(trim(l), Colon)
    /\ ~IsAttributeLine(l) /\ ~IsDeclarationLine(l)
    /\ ~IsClose(trim(l)) /\ trim(l) # Open

\* C21: enum bodies get no field alignment: after a top-level enum declaration
\* line ending in {, whatever the enum's name, inStruct is false, and a body
\* line holding a colon is emitted in place at the current indent level,
\* neither buffered nor padded.
C21_EnumBodyNotAligned ==
    /\ (fpc = "loop" /\ i >= 1 /\ EnumOpenAt(i)) => ~inStruct
    /\ (fpc = "loop" /\ i >= 2 /\ EnumOpenAt(i - 1) /\ IsColonBodyLine(linesRead[i])) =>
          /\ structFields = <<>>
          /\ formatted # <<>>
          /\ formatted[Len(formatted)] = repeat(" ", indentSize) \o trim(linesRead[i])

\* the trimmed text of a line is exactly two words separated by whitespace,
\* and the line holds no colon
TwoWordsNoColon(lineText) ==
    LET t == trim(lineText)
    IN  /\ ~includes(lineText, Colon)
        /\ \E a \in 1..Len(t), b \in 1..Len(t) :
              /\ a < b /\ b < Len(t)
              /\ AllWord(SubSeq(t, 1, a))
              /\ AllSpace(SubSeq(t, a + 1, b))
              /\ AllWord(SubSeq(t, b + 1, Len(t)))

\* C22: when the message contains the missing-colon phrase, findErrorLocation
\* returns the first line, from the top, whose trimmed text is two
\* whitespace-separated words with no colon, indented or not, the start
\* column being the index where the trimmed text begins.
C22_MissingColonLocation ==
    (lpc = "located" /\ includes(errorMessage, MsgExpectedColon)) =>
        \A k \in 1..Len(document) :
            (/\ TwoWordsNoColon(document[k])
             /\ \A j \in 1..(k - 1) : ~TwoWordsNoColon(document[j])) =>
                range.start = Position(k - 1, indexOf(document[k], trim(document[k])))

\* the bucket a message selects: the first, in the order colon, semicolon,
\* opening brace, whose phrase the message contains
SelectedBucket(msg) ==
    IF includes(msg, MsgExpectedColon) THEN "colon"
    ELSE IF includes(msg, MsgExpectedSemicolon) \/ includes(msg, MsgSemicolon)
    THEN "semicolon"
    ELSE IF includes(msg, MsgExpectedBrace) THEN "brace"
    ELSE "none"

\* the 1-based indices of the lines of the document that pass a bucket's test
BucketHits(bucket) ==
    {k \in 1..Len(document) :
        CASE bucket = "colon" -> MissingColonLine(document[k])
          [] bucket = "semicolon" -> MissingSemicolonLine(document[k])
          [] bucket = "brace" -> MissingBraceLine(document[k])
          [] OTHER -> FALSE}

DefaultRange == Range(Position(0, 0), Position(0, 1))

\* C23: findErrorLocation selects one bucket by the phrases of the message,
\* colon before semicolon before opening brace; the result is on the first
\* line that passes that bucket's test, and is the default range (0,0)-(0,1)
\* when no line passes it or no bucket is selected, whatever lines pass the
\* tests of the other buckets.
C23_OneBucketNoFallThrough ==
    lpc = "located" =>
        LET hits == BucketHits(SelectedBucket(errorMessage))
        IN  IF hits = {} THEN range = DefaultRange
            ELSE /\ range.start.line + 1 \in hits
                 /\ \A k \in hits : range.start.line + 1 <= k
                 /\ range.end.line = range.start.line

\* a message with the phrases of two buckets, no line passing the test of the
\* first, a line passing the test of the second, and the default range
C23_LaterBucketNotTried ==
    /\ lpc = "located"
    /\ \E b \in {"semicolon", "brace"} :
          /\ SelectedBucket(errorMessage) # b
          /\ IF b = "semicolon" THEN includes(errorMessage, MsgExpectedSemicolon)
             ELSE includes(errorMessage, MsgExpectedBrace)
          /\ BucketHits(b) # {}
          /\ \A k \in BucketHits(b) : k > 1
    /\ SelectedBucket(errorMessage) # "none"
    /\ BucketHits(SelectedBucket(errorMessage)) = {}
    /\ range = DefaultRange

\* the 1-based index of the last closing-brace line among the first n lines
\* read, 0 when there is none
RECURSIVE LastClose(_)
LastClose(n) ==
    IF n = 0 THEN 0
    ELSE IF IsClose(trim(linesRead[n])) THEN n
    ELSE LastClose(n - 1)

\* s is a subsequence of the trimmed lines from..to of the lines read
RECURSIVE BufferedFrom(_, _, _)
BufferedFrom(s, from, to) ==
    IF s = <<>> THEN TRUE
    ELSE IF from > to THEN FALSE
    ELSE IF trim(linesRead[from]) = Head(s) THEN BufferedFrom(Tail(s), from + 1, to)
    ELSE BufferedFrom(s, from + 1, to)

\* C24: sibling structs are aligned independently: with alignFields set the
\* field buffer is empty whenever the formatter is outside a struct body, and
\* it holds only lines read since the last closing brace, so a batch never
\* holds a field of an earlier, already closed struct.
C24_SiblingStructsIndependent ==
    (alignFields /\ fpc = "loop") =>
        /\ ~inStruct => structFields = <<>>
        /\ BufferedFrom(structFields, LastClose(i) + 1, i)

\* two structs closed one after the other, the first with the longer field
\* name, and the field of the second emitted without padding
C24_SecondStructNarrower ==
    /\ fpc = "done" /\ alignFields
    /\ LET lines == split(text)
           out == split(result)
       IN  /\ Len(lines) = 6
           /\ trim(lines[2]) = <<"l", "o", "n", "g", ":", " ", "c">>
           /\ IsClose(trim(lines[3]))
           /\ IsDeclarationLine(lines[4])
           /\ trim(lines[5]) = <<"a", ":", "b">>
           /\ IsClose(trim(lines[6]))
           /\ Len(out) = 6
           /\ trim(out[5]) = <<"a", ":", " ", "b">>

\* C25: debounce: in a burst of changes to one lumos document, each arriving
\* while the timer is pending, a change starts no pass and leaves one timer
\* pending, the one it armed; the timer firing starts exactly one pass, of
\* that document, after the last change of the burst.
C25_Debounce ==
    /\ [](validationTimeout.pending <=> burst.changes > 0)
    /\ [][/\ burst'.changes > burst.changes =>
               /\ nextPass' = nextPass
               /\ validationTimeout'.pending
               /\ dirty'[validationTimeout'.doc]
          /\ (burst.changes > 0 /\ burst'.changes = 0) =>
               /\ nextPass' = nextPass + 1
               /\ lastStarted'[validationTimeout.doc] = nextPass
               /\ ~dirty'[validationTimeout.doc]
               /\ ~validationTimeout'.pending]_vars

\* the timer has fired for a burst of three changes to one document
C25_BurstOfThreeFired ==
    /\ burst.fired = 3
    /\ ~validationTimeout.pending
    /\ lastStarted[validationTimeout.doc] = nextPass - 1

\* C26: when the passes of a document run one at a time, its published
\* diagnostics are empty while a pass of it runs and, once the pass has
\* completed, exactly what that pass computed: the diagnostics of the previous
\* pass are gone even when the new pass computes none.
C26_PassReplacesDiagnostics ==
    \A d \in DocSet :
        lastStarted[d] # 0 =>
            IF \E p \in running : p.doc = d
            THEN diagnosticCollection[d] = <<>>
            ELSE diagnosticCollection[d] = computed[lastStarted[d]]

\* one document validated twice: an earlier pass computed a diagnostic, the
\* last pass has completed with none, and nothing is published
C26_EarlierDiagnosticsRemoved ==
    \E d \in DocSet :
        /\ \A e \in DocSet \ {d} : lastStarted[e] = 0
        /\ lastStarted[d] \in DOMAIN computed
        /\ computed[lastStarted[d]] = <<>>
        /\ \E id \in DOMAIN computed : id < lastStarted[d] /\ computed[id] # <<>>
        /\ diagnosticCollection[d] = <<>>

\* C27: no content is lost by formatting: whenever formatDocument returns,
\* for both values of alignFields, the returned text has as many lines as the
\* input, and every non-blank line of the input appears in it, a line without
\* a colon as its trimmed text.
C27_NoContentLost ==
    fpc = "done" =>
        LET lines == split(text)
            out == split(result)
        IN  /\ Len(out) = Len(lines)
            /\ \A k \in 1..Len(lines) :
                  (~IsBlank(lines[k]) /\ ~includes(lines[k], Colon)) =>
                      \E m \in 1..Len(out) : trim(out[m]) = trim(lines[k])

\* a block is opened only by a struct/enum declaration line ending in { or by
\* a lone { line, and a } appears only at the start of a line
BracesWellPlaced(ls) ==
    \A k \in 1..Len(ls) :
        LET l == trim(ls[k])
        IN  /\ includes(l, Open) => (l = Open \/ (IsDeclaration(l) /\ endsWith(l, Open)))
            /\ includes(l, Open) =>
                  ~includes(SubSeq(l, 1, Len(l) - 1), Open)
            /\ includes(l, Close) =>
                  (startsWith(l, Close) /\ ~includes(SubSeq(l, 2, Len(l)), Close)
                      /\ ~includes(l, Open))
            /\ IsAttributeLine(ls[k]) => ~includes(l, Open) /\ ~includes(l, Close)

C29_FixChangesLine ==
    (ppc = "returned" /\ "casingLine" \in DOMAIN args /\ ret # NoFix) =>
        ret.edit.text # args.casingLine

\* C30: after deactivate() has run, no language client is running or is
\* started and no validation pass is started, however deactivate interleaves
\* with startLSPClient and with a pending debounce timer.
C30_NothingAfterDeactivate ==
    /\ [](deactivated => (client = NoClient \/ client[1].state = "stopped"))
    /\ [][deactivated => nextPass' = nextPass]_vars

====
